---- MODULE Spec2Model ----
(***************************************************************************)
(* A model of the go-i2ptunnel-config conversion core (package i2pconv):   *)
(* value coercion, the properties / INI / YAML parsers and generators and  *)
(* the tunnel validation engine.                                           *)
(*                                                                         *)
(* Go strings are modelled as sequences of one-character strings, so that  *)
(* trimming, splitting and prefix tests are computed character by          *)
(* character as the library functions compute them.  An interface{} value  *)
(* is a record tagged with its dynamic type.                               *)
(***************************************************************************)
EXTENDS Integers, Sequences, FiniteSets, TLC

VARIABLES pc, input, value, config, err, text, path, first, ctx

vars == <<pc, input, value, config, err, text, path, first, ctx>>

(***************************************************************************)
(* Bounds of the model.                                                    *)
(***************************************************************************)
\* longest token drawn over TokenChars for the coercion functions
MaxTokLen == 3

(***************************************************************************)
(* package strings / strconv                                               *)
(***************************************************************************)
\* unicode.IsSpace restricted to the characters the model uses
Whitespace == {" ", "\t", "\r", "\n"}

Digits == <<"0", "1", "2", "3", "4", "5", "6", "7", "8", "9">>

UpperChars == <<"A", "B", "C", "D", "E", "F", "G", "H", "I", "J", "K", "L", "M",
                "N", "O", "P", "Q", "R", "S", "T", "U", "V", "W", "X", "Y", "Z">>

LowerChars == <<"a", "b", "c", "d", "e", "f", "g", "h", "i", "j", "k", "l", "m",
                "n", "o", "p", "q", "r", "s", "t", "u", "v", "w", "x", "y", "z">>

ToLowerChar(c) ==
    IF \E i \in 1..Len(UpperChars) : UpperChars[i] = c
    THEN LowerChars[CHOOSE i \in 1..Len(UpperChars) : UpperChars[i] = c]
    ELSE c

\* strings.ToLower
ToLower(s) == [i \in 1..Len(s) |-> ToLowerChar(s[i])]

RECURSIVE TrimLeft(_)
TrimLeft(s) ==
    IF s = <<>> THEN s
    ELSE IF Head(s) \in Whitespace THEN TrimLeft(Tail(s)) ELSE s

RECURSIVE TrimRight(_)
TrimRight(s) ==
    IF s = <<>> THEN s
    ELSE IF s[Len(s)] \in Whitespace THEN TrimRight(SubSeq(s, 1, Len(s) - 1)) ELSE s

\* strings.TrimSpace
TrimSpace(s) == TrimRight(TrimLeft(s))

\* strings.HasPrefix
HasPrefix(s, p) == Len(s) >= Len(p) /\ SubSeq(s, 1, Len(p)) = p

\* strings.HasSuffix
HasSuffix(s, p) == Len(s) >= Len(p) /\ SubSeq(s, Len(s) - Len(p) + 1, Len(s)) = p

\* strings.TrimPrefix
TrimPrefix(s, p) == IF HasPrefix(s, p) THEN SubSeq(s, Len(p) + 1, Len(s)) ELSE s

\* strings.TrimSuffix
TrimSuffix(s, p) == IF HasSuffix(s, p) THEN SubSeq(s, 1, Len(s) - Len(p)) ELSE s

\* strings.Contains for a one-character separator
Contains(s, c) == \E i \in 1..Len(s) : s[i] = c

\* strings.ContainsAny
ContainsAny(s, chars) == \E i \in 1..Len(s) : s[i] \in chars

\* strings.Index for a one-character separator; 0 when absent
IndexOf(s, c) == IF Contains(s, c) THEN CHOOSE i \in 1..Len(s) : s[i] = c /\ \A j \in 1..(i - 1) : s[j] # c ELSE 0

\* strings.Split(s, c) for a one-character separator
RECURSIVE Split(_, _)
Split(s, c) ==
    IF ~Contains(s, c) THEN <<s>>
    ELSE <<SubSeq(s, 1, IndexOf(s, c) - 1)>> \o Split(SubSeq(s, IndexOf(s, c) + 1, Len(s)), c)

\* strings.SplitN(s, c, 2)
SplitN2(s, c) ==
    IF ~Contains(s, c) THEN <<s>>
    ELSE <<SubSeq(s, 1, IndexOf(s, c) - 1), SubSeq(s, IndexOf(s, c) + 1, Len(s))>>

\* strings.Join
RECURSIVE Join(_, _)
Join(parts, sep) ==
    IF parts = <<>> THEN <<>>
    ELSE IF Len(parts) = 1 THEN parts[1]
    ELSE parts[1] \o sep \o Join(Tail(parts), sep)

IsDigit(c) == \E i \in 1..10 : Digits[i] = c

DigitVal(c) == (CHOOSE i \in 1..10 : Digits[i] = c) - 1

RECURSIVE DigitsVal(_)
DigitsVal(s) == IF s = <<>> THEN 0 ELSE 10 * DigitsVal(SubSeq(s, 1, Len(s) - 1)) + DigitVal(s[Len(s)])

\* strconv.Atoi: an optional sign followed by one or more decimal digits
Atoi(s) ==
    LET body == IF s # <<>> /\ Head(s) \in {"+", "-"} THEN Tail(s) ELSE s
    IN  IF body # <<>> /\ \A i \in 1..Len(body) : IsDigit(body[i])
        THEN [ok |-> TRUE, n |-> IF Head(s) = "-" THEN 0 - DigitsVal(body) ELSE DigitsVal(body)]
        ELSE [ok |-> FALSE, n |-> 0]

RECURSIVE NatToStr(_)
NatToStr(n) == IF n < 10 THEN <<Digits[n + 1]>> ELSE NatToStr(n \div 10) \o <<Digits[(n % 10) + 1]>>

\* strconv.Itoa, and the %d verb of fmt
Itoa(n) == IF n < 0 THEN <<"-">> \o NatToStr(0 - n) ELSE NatToStr(n)

\* strconv.ParseBool accepts exactly these twelve spellings
ParseBool(s) ==
    IF s \in {<<"1">>, <<"t">>, <<"T">>, <<"T", "R", "U", "E">>, <<"t", "r", "u", "e">>, <<"T", "r", "u", "e">>}
    THEN [ok |-> TRUE, b |-> TRUE]
    ELSE IF s \in {<<"0">>, <<"f">>, <<"F">>, <<"F", "A", "L", "S", "E">>, <<"f", "a", "l", "s", "e">>, <<"F", "a", "l", "s", "e">>}
    THEN [ok |-> TRUE, b |-> FALSE]
    ELSE [ok |-> FALSE, b |-> FALSE]

(***************************************************************************)
(* interface{} values stored in the option groups: the dynamic type is the *)
(* tag t, and only the field of that type is meaningful.                   *)
(***************************************************************************)
BoolV(b) == [t |-> "bool", b |-> b, i |-> 0, s |-> <<>>, l |-> <<>>]

IntV(n) == [t |-> "int", b |-> FALSE, i |-> n, s |-> <<>>, l |-> <<>>]

StrV(s) == [t |-> "string", b |-> FALSE, i |-> 0, s |-> s, l |-> <<>>]

\* []string
ListV(l) == [t |-> "[]string", b |-> FALSE, i |-> 0, s |-> <<>>, l |-> l]

\* []interface{} holding strings, as yaml.Unmarshal produces
AnyListV(l) == [t |-> "[]interface{}", b |-> FALSE, i |-> 0, s |-> <<>>, l |-> l]

NoValue == [t |-> "none", b |-> FALSE, i |-> 0, s |-> <<>>, l |-> <<>>]

(***************************************************************************)
(* Value coercion                                                          *)
(***************************************************************************)
\* properties.go: parseValue
parseValue(s) ==
    IF ParseBool(s).ok THEN BoolV(ParseBool(s).b)
    ELSE IF Atoi(s).ok THEN IntV(Atoi(s).n)
    ELSE IF Contains(s, ",") THEN ListV(Split(s, ","))
    ELSE StrV(s)

\* parseINIValue taking 1 and 0 for booleans as parseINIBooleanValue does
parseINIValue_NumericBooleans(s) ==
    LET original == TrimSpace(s)
        lower == ToLower(original)
        parts == Split(original, ",")
    IN  IF lower \in {<<"t", "r", "u", "e">>, <<"y", "e", "s">>, <<"1">>, <<"o", "n">>, <<"e", "n", "a", "b", "l", "e", "d">>} THEN BoolV(TRUE)
        ELSE IF lower \in {<<"f", "a", "l", "s", "e">>, <<"n", "o">>, <<"0">>, <<"o", "f", "f">>, <<"d", "i", "s", "a", "b", "l", "e", "d">>} THEN BoolV(FALSE)
        ELSE IF Atoi(original).ok THEN IntV(Atoi(original).n)
        ELSE IF Contains(original, ",")
             THEN ListV([i \in 1..Len(parts) |-> TrimSpace(parts[i])])
        ELSE StrV(original)


\* ini.go: parseINIValue
parseINIValue(s) ==
    LET original == TrimSpace(s)
        lower == ToLower(original)
        parts == Split(original, ",")
    IN  IF lower \in {<<"t", "r", "u", "e">>, <<"y", "e", "s">>, <<"o", "n">>, <<"e", "n", "a", "b", "l", "e", "d">>} THEN BoolV(TRUE)
        ELSE IF lower \in {<<"f", "a", "l", "s", "e">>, <<"n", "o">>, <<"o", "f", "f">>, <<"d", "i", "s", "a", "b", "l", "e", "d">>} THEN BoolV(FALSE)
        ELSE IF Atoi(original).ok THEN IntV(Atoi(original).n)
        ELSE IF Contains(original, ",")
             THEN ListV([i \in 1..Len(parts) |-> TrimSpace(parts[i])])
        ELSE StrV(original)

\* ini.go: parseINIBooleanValue
parseINIBooleanValue(s) ==
    LET lower == ToLower(TrimSpace(s))
    IN  lower \in {<<"t", "r", "u", "e">>, <<"y", "e", "s">>, <<"1">>, <<"o", "n">>, <<"e", "n", "a", "b", "l", "e", "d">>}

(***************************************************************************)
(* SpecCoerce: the coercion functions applied to every token over          *)
(* TokenChars of length at most MaxTokLen and to the keyword tokens.       *)
(***************************************************************************)
TokenChars == {"1", "0", "4", ",", " ", "a", "t", "-"}

KeywordTokens ==
    {<<"t", "r", "u", "e">>, <<"T", "R", "U", "E">>, <<"T", "r", "u", "e">>, <<"t", "R", "u", "E">>, <<"f", "a", "l", "s", "e">>, <<"F", "A", "L", "S", "E">>, <<"F", "a", "l", "s", "e">>, <<"f", "A", "l", "s", "e">>,
     <<"T">>, <<"f">>, <<"F">>, <<"y", "e", "s">>, <<"N", "o">>, <<"o", "n">>, <<"O", "F", "F">>, <<"e", "n", "a", "b", "l", "e", "d">>, <<"d", "i", "s", "a", "b", "l", "e", "d">>,
     <<"6", "5", "5", "3", "6">>, <<"+", "7">>, <<"a", ",", " ", "b">>, <<"4", ",", "0">>, <<" ", "4", " ", ",", " ", "0", " ">>, <<"a", ",", "b", ",", "c">>}

RECURSIVE StringsUpTo(_, _)
StringsUpTo(chars, n) ==
    IF n = 0 THEN {<<>>}
    ELSE StringsUpTo(chars, n - 1) \cup
         {Append(s, c) : s \in {x \in StringsUpTo(chars, n - 1) : Len(x) = n - 1}, c \in chars}

Tokens == StringsUpTo(TokenChars, MaxTokLen) \cup KeywordTokens

\* the value every variable a specification does not use keeps
Unused == "unused"

InitCoerce ==
    /\ pc = "start"
    /\ input \in Tokens
    /\ value = NoValue
    /\ config = Unused /\ err = Unused /\ text = Unused
    /\ path = Unused /\ first = Unused /\ ctx = Unused

\* a properties option value goes through parseValue
CoerceProperties ==
    /\ pc = "start"
    /\ value' = parseValue(input)
    /\ pc' = "parseValue"
    /\ UNCHANGED <<input, config, err, text, path, first, ctx>>

\* an INI option value goes through parseINIValue
CoerceINI ==
    /\ pc = "start"
    /\ value' = parseINIValue(input)
    /\ pc' = "parseINIValue"
    /\ UNCHANGED <<input, config, err, text, path, first, ctx>>

\* the value of a boolean-specific INI key goes through parseINIBooleanValue
CoerceINIBoolean ==
    /\ pc = "start"
    /\ value' = BoolV(parseINIBooleanValue(input))
    /\ pc' = "parseINIBooleanValue"
    /\ UNCHANGED <<input, config, err, text, path, first, ctx>>

NextCoerce == CoerceProperties \/ CoerceINI \/ CoerceINIBoolean

SpecCoerce == InitCoerce /\ [][NextCoerce]_vars

\* the token is true or false in some letter case
IsTrueFalseWord(s) == ToLower(s) \in {<<"t", "r", "u", "e">>, <<"f", "a", "l", "s", "e">>}

\* the token is an optional sign followed by decimal digits only
IsBase10Integer(s) ==
    LET body == IF s # <<>> /\ Head(s) \in {"+", "-"} THEN Tail(s) ELSE s
    IN  body # <<>> /\ \A i \in 1..Len(body) : IsDigit(body[i])

\* the comma-separated parts of the token, each trimmed
TrimmedParts(s) == [i \in 1..Len(Split(s, ",")) |-> TrimSpace(Split(s, ",")[i])]

\* C4: in the properties dialect parseValue returns a boolean only for the
\* words true and false (any letter case) and an integer for every token
\* that is a base-10 integer; 1 and 0 become the integers 1 and 0.
C4_PropertiesBooleanOnlyTrueFalse ==
    pc = "parseValue" =>
        /\ (value.t = "bool" => IsTrueFalseWord(input))
        /\ (IsBase10Integer(input) => value = IntV(Atoi(input).n))

\* C5: in the properties and the INI dialect a token that is neither boolean
\* nor integer and contains a comma becomes the list of its comma-separated
\* parts, each trimmed and kept as a string; a token without a comma is
\* never a list.
C5_CommaListTrimmedParts ==
    pc \in {"parseValue", "parseINIValue"} =>
        /\ (Contains(input, ",") /\ value.t \notin {"bool", "int"}
                => value = ListV(TrimmedParts(input)))
        /\ (~Contains(input, ",") => value.t # "[]string")

(***************************************************************************)
(* The canonical TunnelConfig.  Each option group is a function from       *)
(* option name to value; nilGroups names the groups whose Go map is nil.   *)
(***************************************************************************)
EmptyMap == <<>>

Groups == {"I2CP", "Tunnel", "Inbound", "Outbound"}

\* &TunnelConfig{I2CP: make(...), Tunnel: make(...), Inbound: make(...), Outbound: make(...)}
NewConfig ==
    [Name |-> <<>>, Type |-> <<>>, Interface |-> <<>>, Port |-> 0, Target |-> <<>>,
     PersistentKey |-> FALSE, Description |-> <<>>,
     I2CP |-> EmptyMap, Tunnel |-> EmptyMap, Inbound |-> EmptyMap, Outbound |-> EmptyMap,
     nilGroups |-> {}, isNil |-> FALSE]

\* the nil *TunnelConfig: the record with isNil set, whose other fields are never read
NilConfig == [NewConfig EXCEPT !.isNil = TRUE, !.nilGroups = Groups]

\* m[k] = v on a Go map
MapPut(m, k, v) == [x \in (DOMAIN m) \cup {k} |-> IF x = k THEN v ELSE m[x]]

\* if config.G == nil { config.G = make(...) }; config.G[k] = v
SetOption(c, g, k, v) == [c EXCEPT ![g] = MapPut(@, k, v), !.nilGroups = @ \ {g}]

(***************************************************************************)
(* Validation engine                                                       *)
(***************************************************************************)
TunnelTypeHTTPClient == <<"h", "t", "t", "p", "c", "l", "i", "e", "n", "t">>
TunnelTypeSOCKS == <<"s", "o", "c", "k", "s", "t", "u", "n", "n", "e", "l">>
TunnelTypeSOCKSServer == <<"s", "o", "c", "k", "s", "s", "e", "r", "v", "e", "r">>
TunnelTypeIRCClient == <<"i", "r", "c", "c", "l", "i", "e", "n", "t">>
TunnelTypeClient == <<"c", "l", "i", "e", "n", "t">>
TunnelTypeStreamClient == <<"s", "t", "r", "e", "a", "m", "r", "c", "l", "i", "e", "n", "t">>
TunnelTypeHTTPServer == <<"h", "t", "t", "p", "s", "e", "r", "v", "e", "r">>
TunnelTypeServer == <<"s", "e", "r", "v", "e", "r">>
TunnelTypeIRCServer == <<"i", "r", "c", "s", "e", "r", "v", "e", "r">>
TunnelTypeStreamServer == <<"s", "t", "r", "e", "a", "m", "r", "s", "e", "r", "v", "e", "r">>
TunnelTypeHTTPBidir == <<"h", "t", "t", "p", "b", "i", "d", "i", "r", "s", "e", "r", "v", "e", "r">>
TunnelTypeSOCKSIRC == <<"s", "o", "c", "k", "s", "i", "r", "c">>

\* a ValidationRule; Validator names the method the rule calls
Rule(f, r, v, d) == [Field |-> f, Required |-> r, Validator |-> v, Description |-> d]

IfaceRule == Rule("interface", FALSE, "validateInterface", "Interface must be valid if specified")

OptTargetRule == Rule("target", FALSE, "validateTarget", "Target must be valid if specified")

OptPortRule == Rule("port", FALSE, "validatePort", "Port must be valid if specified")

ReqPortRule(d) == Rule("port", TRUE, "validatePort", d)

ReqTargetRule(d) == Rule("target", TRUE, "validateTarget", d)

\* initializeTunnelSpecs: tunnel type -> ordered rules
TunnelSpecs ==
    (TunnelTypeHTTPClient :> <<ReqPortRule("Local port is required for HTTP client"), IfaceRule, OptTargetRule>>)
 @@ (TunnelTypeHTTPServer :> <<ReqTargetRule("Target is required for HTTP server"), OptPortRule, IfaceRule>>)
 @@ (TunnelTypeSOCKS :> <<ReqPortRule("Local port is required for SOCKS tunnel"), IfaceRule>>)
 @@ (TunnelTypeSOCKSServer :> <<ReqPortRule("Local port is required for SOCKS tunnel"), IfaceRule>>)
 @@ (TunnelTypeClient :> <<ReqPortRule("Local port is required for client tunnel"), OptTargetRule, IfaceRule>>)
 @@ (TunnelTypeServer :> <<ReqTargetRule("Target is required for server tunnel"), OptPortRule, IfaceRule>>)
 @@ (TunnelTypeIRCClient :> <<ReqPortRule("Local port is required for IRC client"), IfaceRule>>)
 @@ (TunnelTypeIRCServer :> <<ReqTargetRule("Target is required for IRC server"), OptPortRule, IfaceRule>>)
 @@ (TunnelTypeStreamClient :> <<ReqPortRule("Local port is required for streaming client"), IfaceRule>>)
 @@ (TunnelTypeStreamServer :> <<ReqTargetRule("Target is required for streaming server"), OptPortRule, IfaceRule>>)
 @@ (TunnelTypeHTTPBidir :> <<ReqTargetRule("Target is required for bidirectional server"), OptPortRule, IfaceRule>>)
 @@ (TunnelTypeSOCKSIRC :> <<ReqPortRule("Local port is required for SOCKS IRC"), IfaceRule>>)

\* an error value: the message of the failing check and, for a rule's
\* error, the rule's Description that prefixes it; NoErr is nil
Err(desc, msg) == [desc |-> desc, msg |-> msg]

NoErr == Err("", "")

\* one decimal component of a dotted quad: 1 to 3 digits, at most 255, no leading zero
IsIPv4Part(p) ==
    /\ Len(p) \in 1..3
    /\ \A i \in 1..Len(p) : IsDigit(p[i])
    /\ DigitsVal(p) <= 255
    /\ (Len(p) > 1 => p[1] # "0")

\* net.ParseIP(s) # nil, for dotted-quad IPv4 and the IPv6 literals the model uses
IsIP(s) ==
    \/ /\ Len(Split(s, ".")) = 4
       /\ \A i \in 1..4 : IsIPv4Part(Split(s, ".")[i])
    \/ s \in {<<":", ":">>, <<":", ":", "1">>}

\* validateBasicFields without the test of the name's characters
validateBasicFields_NoNameChars(c) ==
    IF c.Name = <<>> THEN Err("", "tunnel name is required")
    ELSE IF c.Type = <<>> THEN Err("", "tunnel type is required")
    ELSE NoErr


\* validateBasicFields
validateBasicFields(c) ==
    IF c.Name = <<>> THEN Err("", "tunnel name is required")
    ELSE IF c.Type = <<>> THEN Err("", "tunnel type is required")
    ELSE IF ContainsAny(c.Name, {" ", "\t", "\n", "\r", "=", "[", "]"})
         THEN Err("", "tunnel name contains invalid characters")
    ELSE NoErr

\* validatePort
validatePort(c, strict) ==
    IF c.Port <= 0 THEN NoErr
    ELSE IF c.Port < 1 \/ c.Port > 65535 THEN Err("", "port is out of valid range (1-65535)")
    ELSE IF strict /\ c.Port < 1024 THEN Err("", "port is in privileged range (1-1023)")
    ELSE NoErr

\* validateInterface
validateInterface(c, strict) ==
    IF c.Interface = <<>> THEN NoErr
    ELSE IF IsIP(c.Interface) THEN NoErr
    ELSE IF c.Interface \in {<<"l", "o", "c", "a", "l", "h", "o", "s", "t">>, <<"1", "2", "7", ".", "0", ".", "0", ".", "1">>, <<"0", ".", "0", ".", "0", ".", "0">>, <<":", ":">>, <<":", ":", "1">>} THEN NoErr
    ELSE IF strict THEN Err("", "interface should be a valid IP address or localhost")
    ELSE IF ContainsAny(c.Interface, {" ", "\t", "\n", "\r"})
         THEN Err("", "interface contains whitespace characters")
    ELSE NoErr

\* validateTarget without the range test on the port segment
validateTarget_NoPortRange(c, strict) ==
    LET parts == Split(c.Target, ":")
        host == parts[1]
    IN  IF c.Target = <<>> THEN NoErr
        ELSE IF Len(parts) > 2 THEN Err("", "target has invalid format, should be 'host' or 'host:port'")
        ELSE IF host = <<>> THEN Err("", "target has empty host part")
        ELSE IF ~IsIP(host) /\ ContainsAny(host, {" ", "\t", "\n", "\r"})
             THEN Err("", "target host contains whitespace characters")
        ELSE IF Len(parts) = 2 /\ ~Atoi(parts[2]).ok
             THEN Err("", "target port is not a valid number")
        ELSE NoErr

\* validateTarget
validateTarget(c, strict) ==
    LET parts == Split(c.Target, ":")
        host == parts[1]
    IN  IF c.Target = <<>> THEN NoErr
        ELSE IF Len(parts) > 2 THEN Err("", "target has invalid format, should be 'host' or 'host:port'")
        ELSE IF host = <<>> THEN Err("", "target has empty host part")
        ELSE IF ~IsIP(host) /\ ContainsAny(host, {" ", "\t", "\n", "\r"})
             THEN Err("", "target host contains whitespace characters")
        ELSE IF Len(parts) = 2 /\ ~Atoi(parts[2]).ok
             THEN Err("", "target port is not a valid number")
        ELSE IF Len(parts) = 2 /\ (Atoi(parts[2]).n < 1 \/ Atoi(parts[2]).n > 65535)
             THEN Err("", "target port is out of valid range (1-65535)")
        ELSE NoErr

\* rule.Validator(config)
callValidator(name, c, strict) ==
    CASE name = "validatePort" -> validatePort(c, strict)
      [] name = "validateInterface" -> validateInterface(c, strict)
      [] name = "validateTarget" -> validateTarget(c, strict)

\* the required-but-missing test at the head of applyRule
requiredMissing(c, rule) ==
    IF ~rule.Required THEN NoErr
    ELSE IF rule.Field = "port" /\ c.Port <= 0
         THEN Err(rule.Description, "port must be specified and greater than 0")
    ELSE IF rule.Field = "target" /\ c.Target = <<>>
         THEN Err(rule.Description, "target must be specified")
    ELSE IF rule.Field = "interface" /\ c.Interface = <<>>
         THEN Err(rule.Description, "interface must be specified")
    ELSE NoErr

\* applyRule without the required-but-missing test
applyRule_SkipRequired(c, rule, strict) ==
    IF callValidator(rule.Validator, c, strict) # NoErr
    THEN Err(rule.Description, callValidator(rule.Validator, c, strict).msg)
    ELSE NoErr

\* applyRule
applyRule(c, rule, strict) ==
    IF requiredMissing(c, rule) # NoErr THEN requiredMissing(c, rule)
    ELSE IF callValidator(rule.Validator, c, strict) # NoErr
         THEN Err(rule.Description, callValidator(rule.Validator, c, strict).msg)
    ELSE NoErr

\* the loop of Validate over spec.Rules: the first error ends it
RECURSIVE applyRules(_, _, _)
applyRules(c, rules, strict) ==
    IF rules = <<>> THEN NoErr
    ELSE IF applyRule(c, Head(rules), strict) # NoErr THEN applyRule(c, Head(rules), strict)
    ELSE applyRules(c, Tail(rules), strict)

\* validateFormatSpecific with validatePropertiesFormat, validateINIFormat, validateYAMLFormat
validateFormatSpecific(c, strict, format) ==
    IF format = "properties" /\ strict /\ ContainsAny(c.Name, {".", "="})
    THEN Err("", "tunnel name contains characters that may cause issues in properties format")
    ELSE IF format = "ini" /\ strict /\ ContainsAny(c.Name, {"[", "]"})
    THEN Err("", "tunnel name contains characters that may cause issues in INI format")
    ELSE IF format = "yaml" /\ strict /\ (HasPrefix(c.Name, <<" ">>) \/ HasSuffix(c.Name, <<" ">>))
    THEN Err("", "tunnel name has leading or trailing spaces that may cause issues in YAML format")
    ELSE NoErr

\* Validate looking the type up as it is written, without strings.ToLower
Validate_CaseSensitive(c, strict, format) ==
    IF validateBasicFields(c) # NoErr THEN validateBasicFields(c)
    ELSE IF c.Type \notin DOMAIN TunnelSpecs
         THEN IF strict THEN Err("", "unknown tunnel type") ELSE NoErr
    ELSE IF applyRules(c, TunnelSpecs[c.Type], strict) # NoErr
         THEN applyRules(c, TunnelSpecs[c.Type], strict)
    ELSE validateFormatSpecific(c, strict, format)

\* Validate with the format-specific validation ahead of the type's rules
Validate_FormatFirst(c, strict, format) ==
    LET tunnelType == ToLower(c.Type)
    IN  IF validateBasicFields(c) # NoErr THEN validateBasicFields(c)
        ELSE IF tunnelType \notin DOMAIN TunnelSpecs
             THEN IF strict THEN Err("", "unknown tunnel type") ELSE NoErr
        ELSE IF validateFormatSpecific(c, strict, format) # NoErr
             THEN validateFormatSpecific(c, strict, format)
        ELSE applyRules(c, TunnelSpecs[tunnelType], strict)


\* ValidationContext.Validate
Validate(c, strict, format) ==
    LET tunnelType == ToLower(c.Type)
    IN  IF validateBasicFields(c) # NoErr THEN validateBasicFields(c)
        ELSE IF tunnelType \notin DOMAIN TunnelSpecs
             THEN IF strict THEN Err("", "unknown tunnel type") ELSE NoErr
        ELSE IF applyRules(c, TunnelSpecs[tunnelType], strict) # NoErr
             THEN applyRules(c, TunnelSpecs[tunnelType], strict)
        ELSE validateFormatSpecific(c, strict, format)

(***************************************************************************)
(* SpecValidate: Validate applied to configs over the pools below, for     *)
(* both strict settings and every format of the validation context.        *)
(***************************************************************************)
ValidateNames ==
    {<<"t">>, <<>>, <<"a", " ", "b">>, <<"a", ".", "b">>, <<"a", "=", "b">>, <<"a", "[">>,
     <<"a", "]">>, <<"a", "\t", "b">>, <<"a", "\n">>, <<"\r", "a">>}

ValidateTypes ==
    DOMAIN TunnelSpecs \cup {<<"H", "T", "T", "P", "C", "l", "i", "e", "n", "t">>, <<"S", "e", "r", "v", "e", "r">>, <<"b", "o", "g", "u", "s">>, <<>>}

ValidatePorts == {-1, 0, 1, 1023, 1024, 65535, 65536}

ValidateTargets ==
    {<<>>, <<"h">>, <<"h", ":", "8", "0">>, <<"h", ":", "0">>, <<"h", ":", "6", "5", "5", "3", "6">>, <<"h", ":", "x">>, <<":", "8", "0">>, <<"a", ":", "b", ":", "c">>, <<"h", " ", "h", ":", "8", "0">>, <<"h", ":">>}

ValidateInterfaces == {<<>>, <<"1", "2", "7", ".", "0", ".", "0", ".", "1">>, <<"e", "t", "h", "0">>, <<"e", " ", "0">>}

ValidateConfigs ==
    {[NewConfig EXCEPT !.Name = n, !.Type = t, !.Port = p, !.Target = g, !.Interface = i] :
        n \in ValidateNames, t \in ValidateTypes, p \in ValidatePorts,
        g \in ValidateTargets, i \in ValidateInterfaces}

InitValidate ==
    /\ pc = "start"
    /\ config \in ValidateConfigs
    /\ ctx \in [Strict : BOOLEAN, Format : {"properties", "ini", "yaml"}]
    /\ err = NoErr
    /\ input = Unused /\ value = Unused /\ text = Unused
    /\ path = Unused /\ first = Unused

\* NewValidationContext(strict, format).Validate(config)
DoValidate ==
    /\ pc = "start"
    /\ err' = Validate(config, ctx.Strict, ctx.Format)
    /\ pc' = "validated"
    /\ UNCHANGED <<input, value, config, text, path, first, ctx>>

NextValidate == DoValidate

SpecValidate == InitValidate /\ [][NextValidate]_vars

KnownType(c) == ToLower(c.Type) \in DOMAIN TunnelSpecs

ValidName(c) == c.Name # <<>> /\ ~ContainsAny(c.Name, {" ", "\t", "\n", "\r", "=", "[", "]"})

\* C8: for every known type and both strict settings, a Port that is set
\* (non-zero) and outside [1,65535] fails validation.
C8_PortOutsideRangeFails ==
    (pc = "validated" /\ KnownType(config) /\ config.Port # 0
        /\ (config.Port < 1 \/ config.Port > 65535))
    => err # NoErr

\* the types whose rule table marks the port, respectively the target, required
PortRequiredTypes ==
    {TunnelTypeHTTPClient, TunnelTypeSOCKS, TunnelTypeSOCKSServer, TunnelTypeClient,
     TunnelTypeIRCClient, TunnelTypeStreamClient, TunnelTypeSOCKSIRC}

TargetRequiredTypes ==
    {TunnelTypeHTTPServer, TunnelTypeServer, TunnelTypeIRCServer, TunnelTypeStreamServer,
     TunnelTypeHTTPBidir}

\* the rule descriptions that contain "Local port is required"
LocalPortRequiredTexts ==
    {"Local port is required for HTTP client", "Local port is required for SOCKS tunnel",
     "Local port is required for client tunnel", "Local port is required for IRC client",
     "Local port is required for streaming client", "Local port is required for SOCKS IRC"}

\* the rule descriptions that contain "Target is required"
TargetRequiredTexts ==
    {"Target is required for HTTP server", "Target is required for server tunnel",
     "Target is required for IRC server", "Target is required for streaming server",
     "Target is required for bidirectional server"}

\* C9: given a valid Name, Validate fails with "Local port is required" when
\* Port <= 0 for a port-requiring type, with "Target is required" when Target
\* is empty for a target-requiring type, and an unset field that is not
\* marked required never produces that field's fault.
C9_RequiredFieldsEnforced ==
    (pc = "validated" /\ ValidName(config) /\ KnownType(config)) =>
        /\ (ToLower(config.Type) \in PortRequiredTypes /\ config.Port <= 0
                => err.desc \in LocalPortRequiredTexts)
        /\ (ToLower(config.Type) \in TargetRequiredTypes /\ config.Target = <<>>
                => err.desc \in TargetRequiredTexts)
        /\ PortRequiredTypes \cup TargetRequiredTypes = DOMAIN TunnelSpecs
        /\ (config.Interface = <<>> => err.desc # "Interface must be valid if specified")
        /\ (config.Target = <<>> => err.desc # "Target must be valid if specified")
        /\ (config.Port = 0 => err.desc # "Port must be valid if specified")
        /\ (/\ ~ctx.Strict
            /\ config.Interface = <<>>
            /\ (ToLower(config.Type) \in PortRequiredTypes
                    => config.Port \in 1..65535 /\ config.Target = <<>>)
            /\ (ToLower(config.Type) \in TargetRequiredTypes
                    => config.Target = <<"h", ":", "8", "0">> /\ config.Port = 0)
            => err = NoErr)

C9_Witness ==
    /\ pc = "validated"
    /\ config.Name = <<"t">> /\ config.Type = TunnelTypeSOCKSServer
    /\ config.Port = 0
    /\ err = Err("Local port is required for SOCKS tunnel", "port must be specified and greater than 0")

\* the number of ':' in s
RECURSIVE CountChar(_, _)
CountChar(s, c) ==
    IF s = <<>> THEN 0 ELSE (IF Head(s) = c THEN 1 ELSE 0) + CountChar(Tail(s), c)

\* host or host:port: at most one ':', a non-empty host without white space,
\* and a port segment, when present, that is an integer in [1,65535]
ValidTargetForm(s) ==
    LET n == CountChar(s, ":")
        host == IF n = 0 THEN s ELSE SubSeq(s, 1, IndexOf(s, ":") - 1)
        port == SubSeq(s, IndexOf(s, ":") + 1, Len(s))
    IN  /\ n <= 1
        /\ host # <<>>
        /\ \A i \in 1..Len(host) : host[i] \notin Whitespace
        /\ (n = 1 => IsBase10Integer(port) /\ Atoi(port).n \in 1..65535)

\* C10 as stated: for every known type a non-empty Target that Validate
\* accepts has the form host or host:port.
C10_TargetCheckedForEveryType ==
    (pc = "validated" /\ KnownType(config) /\ config.Target # <<>> /\ err = NoErr)
    => ValidTargetForm(config.Target)

\* the types whose rule table holds a rule for the target field
TargetRuleTypes ==
    {t \in DOMAIN TunnelSpecs : \E i \in 1..Len(TunnelSpecs[t]) : TunnelSpecs[t][i].Field = "target"}

\* C10 amended: for every known type whose rule table has a target rule
\* (httpclient, client and the five server types) a non-empty Target that
\* Validate accepts has the form host or host:port; for the other known
\* types the Target is not checked.
C10_TargetCheckedWhereRuled ==
    /\ TargetRuleTypes = TargetRequiredTypes \cup {TunnelTypeHTTPClient, TunnelTypeClient}
    /\ (pc = "validated" /\ ToLower(config.Type) \in TargetRuleTypes
            /\ config.Target # <<>> /\ err = NoErr)
        => ValidTargetForm(config.Target)

C10_Witness ==
    /\ pc = "validated"
    /\ config.Type = TunnelTypeHTTPClient /\ config.Port = 1024
    /\ config.Target = <<"h", ":", "6", "5", "5", "3", "6">>
    /\ err = Err("Target must be valid if specified", "target port is out of valid range (1-65535)")

(***************************************************************************)
(* Parse errors.  An error value of the parsers carries its kind: "nil",   *)
(* "ParseError" (a ParseError), "error" (fmt.Errorf) or "panic" (the call  *)
(* aborted with a run-time panic instead of returning).                    *)
(***************************************************************************)
NilErr ==
    [kind |-> "nil", Line |-> 0, Column |-> 0, Content |-> <<>>, Context |-> <<>>,
     Message |-> "", Format |-> ""]

PlainError(msg) == [NilErr EXCEPT !.kind = "error", !.Message = msg]

Panic(msg) == [NilErr EXCEPT !.kind = "panic", !.Message = msg]

Min(a, b) == IF a < b THEN a ELSE b

Max(a, b) == IF a > b THEN a ELSE b

\* extractContext taking the window from the 1-indexed line number on
extractContext_OneBased(lines, targetLine, contextLines) ==
    IF targetLine < 1 \/ targetLine > Len(lines)
    THEN [context |-> <<>>, content |-> <<>>]
    ELSE LET start == Max(targetLine - contextLines, 0)
             end == Min(targetLine + contextLines, Len(lines))
         IN  [context |-> SubSeq(lines, start + 1, end), content |-> lines[targetLine]]


\* extractContext; lines is strings.Split(string(input), "\n")
extractContext(lines, targetLine, contextLines) ==
    IF targetLine < 1 \/ targetLine > Len(lines)
    THEN [context |-> <<>>, content |-> <<>>]
    ELSE LET targetIdx == targetLine - 1
             start == Max(targetIdx - contextLines, 0)
             end == Min(targetIdx + contextLines + 1, Len(lines))
         IN  [context |-> SubSeq(lines, start + 1, end), content |-> lines[targetIdx + 1]]

\* newParseError
newParseError(lines, line, column, format, message) ==
    [kind |-> "ParseError", Line |-> line, Column |-> column,
     Content |-> extractContext(lines, line, 2).content,
     Context |-> extractContext(lines, line, 2).context,
     Message |-> message, Format |-> format]

(***************************************************************************)
(* INI parser                                                              *)
(***************************************************************************)
\* parseINIKeyValue
parseINIKeyValue(key, val, c) ==
    CASE key = <<"n", "a", "m", "e">> -> IF c.Name = <<>> THEN [c EXCEPT !.Name = val] ELSE c
      [] key = <<"t", "y", "p", "e">> -> [c EXCEPT !.Type = val]
      [] key \in {<<"h", "o", "s", "t">>, <<"i", "n", "t", "e", "r", "f", "a", "c", "e">>} -> [c EXCEPT !.Interface = val]
      [] key = <<"p", "o", "r", "t">> -> IF Atoi(val).ok THEN [c EXCEPT !.Port = Atoi(val).n] ELSE c
      [] key \in {<<"d", "e", "s", "t", "i", "n", "a", "t", "i", "o", "n">>, <<"a", "d", "d", "r", "e", "s", "s">>} -> [c EXCEPT !.Target = val]
      [] key = <<"h", "o", "s", "t", "o", "v", "e", "r", "r", "i", "d", "e">> -> SetOption(c, "Tunnel", key, StrV(val))
      [] key = <<"d", "e", "s", "c", "r", "i", "p", "t", "i", "o", "n">> -> [c EXCEPT !.Description = val]
      [] key = <<"k", "e", "y", "s">> ->
            IF ToLower(val) = <<"t", "r", "a", "n", "s", "i", "e", "n", "t">>
            THEN [c EXCEPT !.PersistentKey = FALSE]
            ELSE SetOption([c EXCEPT !.PersistentKey = TRUE], "Tunnel", <<"k", "e", "y", "f", "i", "l", "e">>, StrV(val))
      [] key \in {<<"g", "z", "i", "p">>, <<"m", "u", "l", "t", "i", "c", "a", "s", "t">>, <<"m", "a", "p", "t", "o", "l", "o", "o", "p", "b", "a", "c", "k">>, <<"e", "n", "a", "b", "l", "e", "u", "n", "i", "q", "u", "e", "l", "o", "c", "a", "l">>} ->
            SetOption(c, "Tunnel", key, BoolV(parseINIBooleanValue(val)))
      [] key \in {<<"a", "c", "c", "e", "s", "s", "l", "i", "s", "t">>, <<"s", "i", "g", "n", "a", "t", "u", "r", "e", "t", "y", "p", "e">>, <<"e", "x", "p", "l", "i", "c", "i", "t", "p", "e", "e", "r", "s">>} ->
            SetOption(c, "Tunnel", key, parseINIValue(val))
      [] key = <<"w", "e", "b", "i", "r", "c", "p", "a", "s", "s", "w", "o", "r", "d">> -> SetOption(c, "Tunnel", key, StrV(val))
      [] OTHER ->
            IF HasPrefix(key, <<"i", "2", "c", "p", ".">>)
            THEN SetOption(c, "I2CP", TrimPrefix(key, <<"i", "2", "c", "p", ".">>), parseINIValue(val))
            ELSE IF HasPrefix(key, <<"c", "r", "y", "p", "t", "o", ".">>) \/ HasPrefix(key, <<"s", "t", "r", "e", "a", "m", "r", ".">>)
            THEN SetOption(c, "Tunnel", key, parseINIValue(val))
            ELSE IF HasPrefix(key, <<"i", "n", "b", "o", "u", "n", "d", ".">>)
            THEN SetOption(c, "Inbound", TrimPrefix(key, <<"i", "n", "b", "o", "u", "n", "d", ".">>), parseINIValue(val))
            ELSE IF HasPrefix(key, <<"o", "u", "t", "b", "o", "u", "n", "d", ".">>)
            THEN SetOption(c, "Outbound", TrimPrefix(key, <<"o", "u", "t", "b", "o", "u", "n", "d", ".">>), parseINIValue(val))
            ELSE SetOption(c, "Tunnel", key, parseINIValue(val))

\* the body of parseINI's loop with the line number reported 0-indexed
parseINILine_ZeroIndexed(lines, lineNum, c) ==
    LET originalLine == lines[lineNum + 1]
        line == TrimSpace(originalLine)
        currentSection == TrimSuffix(TrimPrefix(line, <<"[">>), <<"]">>)
        parts == SplitN2(line, "=")
        fail(msg) == [config |-> NilConfig, err |-> newParseError(lines, lineNum, 0, "ini", msg)]
    IN  IF line = <<>> \/ HasPrefix(line, <<";">>) \/ HasPrefix(line, <<"#">>)
        THEN [config |-> c, err |-> NilErr]
        ELSE IF HasPrefix(line, <<"[">>)
        THEN IF ~HasSuffix(line, <<"]">>)
             THEN fail("unclosed section bracket - expected ']'")
             ELSE IF currentSection = <<>>
             THEN fail("empty section name - sections must have a name")
             ELSE [config |-> IF c.Name = <<>> THEN [c EXCEPT !.Name = currentSection] ELSE c,
                   err |-> NilErr]
        ELSE IF Len(parts) # 2
        THEN IF Contains(originalLine, "=")
             THEN fail("malformed key=value pair - check for extra '=' characters")
             ELSE fail("expected key=value pair or section header [name]")
        ELSE IF TrimSpace(parts[1]) = <<>>
        THEN fail("empty key name - key=value pairs must have a key")
        ELSE [config |-> parseINIKeyValue(TrimSpace(parts[1]), TrimSpace(parts[2]), c),
              err |-> NilErr]

\* the body of parseINI's loop for the line at 0-based index lineNum:
\* the config after the line, or the error the line makes parseINI return
parseINILine(lines, lineNum, c) ==
    LET originalLine == lines[lineNum + 1]
        line == TrimSpace(originalLine)
        currentSection == TrimSuffix(TrimPrefix(line, <<"[">>), <<"]">>)
        parts == SplitN2(line, "=")
        fail(msg) == [config |-> NilConfig, err |-> newParseError(lines, lineNum + 1, 0, "ini", msg)]
    IN  IF line = <<>> \/ HasPrefix(line, <<";">>) \/ HasPrefix(line, <<"#">>)
        THEN [config |-> c, err |-> NilErr]
        ELSE IF HasPrefix(line, <<"[">>)
        THEN IF ~HasSuffix(line, <<"]">>)
             THEN fail("unclosed section bracket - expected ']'")
             ELSE IF currentSection = <<>>
             THEN fail("empty section name - sections must have a name")
             ELSE [config |-> IF c.Name = <<>> THEN [c EXCEPT !.Name = currentSection] ELSE c,
                   err |-> NilErr]
        ELSE IF Len(parts) # 2
        THEN IF Contains(originalLine, "=")
             THEN fail("malformed key=value pair - check for extra '=' characters")
             ELSE fail("expected key=value pair or section header [name]")
        ELSE IF TrimSpace(parts[1]) = <<>>
        THEN fail("empty key name - key=value pairs must have a key")
        ELSE [config |-> parseINIKeyValue(TrimSpace(parts[1]), TrimSpace(parts[2]), c),
              err |-> NilErr]

\* parseINI's loop from the line at 0-based index lineNum on
RECURSIVE parseINIFrom(_, _, _)
parseINIFrom(lines, lineNum, c) ==
    IF lineNum >= Len(lines) THEN [config |-> c, err |-> NilErr]
    ELSE IF parseINILine(lines, lineNum, c).err # NilErr THEN parseINILine(lines, lineNum, c)
    ELSE parseINIFrom(lines, lineNum + 1, parseINILine(lines, lineNum, c).config)

\* parseINI; lines is strings.Split(string(input), "\n")
parseINI(lines) == parseINIFrom(lines, 0, NewConfig)

(***************************************************************************)
(* Properties parser                                                       *)
(***************************************************************************)
\* strings.SplitN(s, c, 3)
SplitN3(s, c) ==
    IF ~Contains(s, c) THEN <<s>>
    ELSE <<SplitN2(s, c)[1]>> \o SplitN2(SplitN2(s, c)[2], c)

\* one line of a properties file as the tokenizer reads it: nothing for a
\* blank line or a comment, else the key before the first '=' and the
\* value after it (no escapes, no ${} expansion in the model's inputs)
LoadLine(line) ==
    LET l == TrimLeft(line)
        kv == SplitN2(l, "=")
    IN  IF l = <<>> \/ Head(l) \in {"#", "!"} THEN <<>>
        ELSE <<[key |-> TrimSpace(kv[1]), val |-> IF Len(kv) = 2 THEN TrimSpace(kv[2]) ELSE <<>>]>>

\* p.Set: a repeated key keeps its place and takes the later value
RECURSIVE PropSet(_, _)
PropSet(props, kv) ==
    IF props = <<>> THEN <<kv>>
    ELSE IF Head(props).key = kv.key THEN <<kv>> \o Tail(props)
    ELSE <<Head(props)>> \o PropSet(Tail(props), kv)

\* properties.MustLoadString followed by p.Keys() / p.GetString: the keys in
\* file order, each with its value
RECURSIVE LoadString(_)
LoadString(lines) ==
    IF lines = <<>> THEN <<>>
    ELSE LET rest == LoadString(SubSeq(lines, 1, Len(lines) - 1))
             last == LoadLine(lines[Len(lines)])
         IN  IF last = <<>> THEN rest ELSE PropSet(rest, last[1])

\* parseNumberedTunnelProperty writing the core fields whether or not they are set
parseNumberedTunnelProperty_Overwrite(property, val, c) ==
    CASE property = <<"n", "a", "m", "e">> -> [c EXCEPT !.Name = val]
      [] property = <<"t", "y", "p", "e">> -> [c EXCEPT !.Type = val]
      [] property = <<"i", "n", "t", "e", "r", "f", "a", "c", "e">> -> [c EXCEPT !.Interface = val]
      [] property = <<"l", "i", "s", "t", "e", "n", "P", "o", "r", "t">> -> IF Atoi(val).ok THEN [c EXCEPT !.Port = Atoi(val).n] ELSE c
      [] property \in {<<"t", "a", "r", "g", "e", "t", "D", "e", "s", "t", "i", "n", "a", "t", "i", "o", "n">>, <<"t", "a", "r", "g", "e", "t", "H", "o", "s", "t">>} -> [c EXCEPT !.Target = val]
      [] property = <<"t", "a", "r", "g", "e", "t", "P", "o", "r", "t">> ->
            IF Atoi(val).ok THEN SetOption(c, "Tunnel", <<"t", "a", "r", "g", "e", "t", "P", "o", "r", "t">>, IntV(Atoi(val).n)) ELSE c
      [] property = <<"d", "e", "s", "c", "r", "i", "p", "t", "i", "o", "n">> -> [c EXCEPT !.Description = val]
      [] OTHER -> SetOption(c, "Tunnel", property, parseValue(val))


\* parseNumberedTunnelProperty
parseNumberedTunnelProperty(property, val, c) ==
    CASE property = <<"n", "a", "m", "e">> ->
            IF c.Name = <<>> THEN [c EXCEPT !.Name = val]
            ELSE SetOption(c, "Tunnel", <<"a", "l", "t", "e", "r", "n", "a", "t", "e", "N", "a", "m", "e">>, StrV(val))
      [] property = <<"t", "y", "p", "e">> -> IF c.Type = <<>> THEN [c EXCEPT !.Type = val] ELSE c
      [] property = <<"i", "n", "t", "e", "r", "f", "a", "c", "e">> -> IF c.Interface = <<>> THEN [c EXCEPT !.Interface = val] ELSE c
      [] property = <<"l", "i", "s", "t", "e", "n", "P", "o", "r", "t">> ->
            IF c.Port = 0 /\ Atoi(val).ok THEN [c EXCEPT !.Port = Atoi(val).n] ELSE c
      [] property \in {<<"t", "a", "r", "g", "e", "t", "D", "e", "s", "t", "i", "n", "a", "t", "i", "o", "n">>, <<"t", "a", "r", "g", "e", "t", "H", "o", "s", "t">>} ->
            IF c.Target = <<>> THEN [c EXCEPT !.Target = val] ELSE c
      [] property = <<"t", "a", "r", "g", "e", "t", "P", "o", "r", "t">> ->
            IF Atoi(val).ok THEN SetOption(c, "Tunnel", <<"t", "a", "r", "g", "e", "t", "P", "o", "r", "t">>, IntV(Atoi(val).n)) ELSE c
      [] property = <<"d", "e", "s", "c", "r", "i", "p", "t", "i", "o", "n">> ->
            IF c.Description = <<>> THEN [c EXCEPT !.Description = val] ELSE c
      [] OTHER -> SetOption(c, "Tunnel", property, parseValue(val))

\* the switch of parsePropertyKey over the flat keys
parseFlatKey(k, s, c) ==
    CASE k = <<"n", "a", "m", "e">> -> [c EXCEPT !.Name = s]
      [] k = <<"t", "y", "p", "e">> -> [c EXCEPT !.Type = s]
      [] k = <<"i", "n", "t", "e", "r", "f", "a", "c", "e">> -> [c EXCEPT !.Interface = s]
      [] k = <<"l", "i", "s", "t", "e", "n", "P", "o", "r", "t">> -> IF Atoi(s).ok THEN [c EXCEPT !.Port = Atoi(s).n] ELSE c
      [] k \in {<<"t", "a", "r", "g", "e", "t", "D", "e", "s", "t", "i", "n", "a", "t", "i", "o", "n">>, <<"t", "a", "r", "g", "e", "t", "H", "o", "s", "t">>} -> [c EXCEPT !.Target = s]
      [] k = <<"t", "a", "r", "g", "e", "t", "P", "o", "r", "t">> ->
            IF Atoi(s).ok THEN SetOption(c, "Tunnel", <<"t", "a", "r", "g", "e", "t", "P", "o", "r", "t">>, IntV(Atoi(s).n)) ELSE c
      [] k = <<"d", "e", "s", "c", "r", "i", "p", "t", "i", "o", "n">> -> [c EXCEPT !.Description = s]
      [] k \in {<<"p", "r", "o", "x", "y", "L", "i", "s", "t">>, <<"s", "h", "a", "r", "e", "d", "C", "l", "i", "e", "n", "t">>, <<"s", "t", "a", "r", "t", "O", "n", "L", "o", "a", "d">>, <<"a", "c", "c", "e", "s", "s", "L", "i", "s", "t">>, <<"s", "p", "o", "o", "f", "e", "d", "H", "o", "s", "t">>} ->
            SetOption(c, "Tunnel", k, parseValue(s))
      [] k = <<"i", "2", "c", "p", "H", "o", "s", "t">> -> SetOption(c, "I2CP", <<"h", "o", "s", "t">>, StrV(s))
      [] k = <<"i", "2", "c", "p", "P", "o", "r", "t">> ->
            IF Atoi(s).ok
            THEN SetOption(c, "I2CP", <<"p", "o", "r", "t">>, IntV(Atoi(s).n))
            ELSE [c EXCEPT !.nilGroups = @ \ {"I2CP"}]
      [] OTHER -> c

\* the if / else-if chain of parsePropertyKey over the prefixed keys; the
\* type assertion parseValue(s).(bool) panics when the value is not a bool
parsePrefixedKey(k, s, c) ==
    IF HasPrefix(k, <<"o", "p", "t", "i", "o", "n", ".", "i", "2", "c", "p", ".">>)
    THEN [config |-> SetOption(c, "I2CP", TrimPrefix(k, <<"o", "p", "t", "i", "o", "n", ".", "i", "2", "c", "p", ".">>), parseValue(s)), panic |-> FALSE]
    ELSE IF HasPrefix(k, <<"o", "p", "t", "i", "o", "n", ".", "i", "2", "p", "t", "u", "n", "n", "e", "l", ".">>)
    THEN [config |-> SetOption(c, "Tunnel", TrimPrefix(k, <<"o", "p", "t", "i", "o", "n", ".", "i", "2", "p", "t", "u", "n", "n", "e", "l", ".">>), parseValue(s)), panic |-> FALSE]
    ELSE IF HasPrefix(k, <<"o", "p", "t", "i", "o", "n", ".", "i", "n", "b", "o", "u", "n", "d", ".">>)
    THEN [config |-> SetOption(c, "Inbound", TrimPrefix(k, <<"o", "p", "t", "i", "o", "n", ".", "i", "n", "b", "o", "u", "n", "d", ".">>), parseValue(s)), panic |-> FALSE]
    ELSE IF HasPrefix(k, <<"o", "p", "t", "i", "o", "n", ".", "o", "u", "t", "b", "o", "u", "n", "d", ".">>)
    THEN [config |-> SetOption(c, "Outbound", TrimPrefix(k, <<"o", "p", "t", "i", "o", "n", ".", "o", "u", "t", "b", "o", "u", "n", "d", ".">>), parseValue(s)), panic |-> FALSE]
    ELSE IF k = <<"o", "p", "t", "i", "o", "n", ".", "p", "e", "r", "s", "i", "s", "t", "e", "n", "t", "C", "l", "i", "e", "n", "t", "K", "e", "y">>
    THEN IF parseValue(s).t = "bool"
         THEN [config |-> [c EXCEPT !.PersistentKey = parseValue(s).b], panic |-> FALSE]
         ELSE [config |-> c, panic |-> TRUE]
    ELSE [config |-> c, panic |-> FALSE]

\* parsePropertyKey: the config after the key, or a panic
parsePropertyKey(k, s, c) ==
    IF HasPrefix(k, <<"#">>) \/ HasPrefix(k, <<"c", "o", "n", "f", "i", "g", "F", "i", "l", "e">>)
    THEN [config |-> c, panic |-> FALSE]
    ELSE IF HasPrefix(k, <<"t", "u", "n", "n", "e", "l", ".">>) /\ Contains(k, ".") /\ Len(SplitN3(k, ".")) = 3
    THEN [config |-> parseNumberedTunnelProperty(SplitN3(k, ".")[3], s, c), panic |-> FALSE]
    ELSE parsePrefixedKey(k, s, parseFlatKey(k, s, c))

\* the loop of parseJavaProperties over p.Keys()
RECURSIVE parseKeys(_, _)
parseKeys(props, c) ==
    IF props = <<>> THEN [config |-> c, err |-> NilErr]
    ELSE IF parsePropertyKey(Head(props).key, Head(props).val, c).panic
    THEN [config |-> NilConfig, err |-> Panic("interface conversion: interface {} is not bool")]
    ELSE parseKeys(Tail(props), parsePropertyKey(Head(props).key, Head(props).val, c).config)

\* parseJavaProperties; lines are the lines of the input
parseJavaProperties(lines) == parseKeys(LoadString(lines), NewConfig)

(***************************************************************************)
(* YAML parser.  The text is read by yaml.v2; the model starts from the    *)
(* document tree: the tunnels mapping from key to node, a node being null  *)
(* or a mapping holding the keys in has with the values in v.  A document  *)
(* the library rejects carries the library's error instead.                *)
(***************************************************************************)
\* the yaml keys of TunnelConfig's struct tags for the scalar fields and the groups
YAMLScalarKeys == {"name", "type", "interface", "port", "persistentKey", "description"}

\* the yaml key of the Target field
YAMLTargetKey == "target"

YAMLGroupKey == [g \in Groups |-> CASE g = "I2CP" -> "i2cp" [] g = "Tunnel" -> "options"
                                     [] g = "Inbound" -> "inbound" [] g = "Outbound" -> "outbound"]

\* a list read back by yaml.Unmarshal into interface{} is a []interface{}
DecodeValue(x) == IF x.t = "[]string" THEN AnyListV(x.l) ELSE x

DecodeGroup(m) == [k \in DOMAIN m |-> DecodeValue(m[k])]

\* yaml.Unmarshal of one node into a *TunnelConfig: a null node leaves the
\* pointer nil, an absent key leaves the field zero and an absent group nil
UnmarshalNode(node) ==
    IF node.null THEN NilConfig
    ELSE [Name |-> IF "name" \in node.has THEN node.v.Name ELSE <<>>,
          Type |-> IF "type" \in node.has THEN node.v.Type ELSE <<>>,
          Interface |-> IF "interface" \in node.has THEN node.v.Interface ELSE <<>>,
          Port |-> IF "port" \in node.has THEN node.v.Port ELSE 0,
          Target |-> IF YAMLTargetKey \in node.has THEN node.v.Target ELSE <<>>,
          PersistentKey |-> IF "persistentKey" \in node.has THEN node.v.PersistentKey ELSE FALSE,
          Description |-> IF "description" \in node.has THEN node.v.Description ELSE <<>>,
          I2CP |-> IF "i2cp" \in node.has THEN DecodeGroup(node.v.I2CP) ELSE EmptyMap,
          Tunnel |-> IF "options" \in node.has THEN DecodeGroup(node.v.Tunnel) ELSE EmptyMap,
          Inbound |-> IF "inbound" \in node.has THEN DecodeGroup(node.v.Inbound) ELSE EmptyMap,
          Outbound |-> IF "outbound" \in node.has THEN DecodeGroup(node.v.Outbound) ELSE EmptyMap,
          nilGroups |-> {g \in Groups : YAMLGroupKey[g] \notin node.has},
          isNil |-> FALSE]

\* enhanceYAMLError: a library error whose message carries a line number
\* becomes a ParseError, any other is wrapped as it is
enhanceYAMLError(lines, e) ==
    IF e.line > 0
    THEN newParseError(lines, e.line, 0, "yaml", e.msg)
    ELSE PlainError("yaml parse error")

\* parseYAML: every result the call can have; the entry returned is the
\* first of Go's iteration over the map, which is any entry
parseYAML(doc) ==
    IF doc.unmarshal.failed
    THEN {[config |-> NilConfig, err |-> enhanceYAMLError(doc.lines, doc.unmarshal)]}
    ELSE IF DOMAIN doc.tunnels = {}
    THEN {[config |-> NilConfig, err |-> PlainError("yaml: no tunnels found in tunnels map")]}
    ELSE {IF doc.tunnels[name].null
          THEN [config |-> NilConfig, err |-> Panic("nil pointer dereference")]
          ELSE [config |-> [UnmarshalNode(doc.tunnels[name]) EXCEPT !.Name = name], err |-> NilErr]
          : name \in DOMAIN doc.tunnels}

(***************************************************************************)
(* Specification SpecParse: one input in one of the three dialects is      *)
(* parsed by the dialect's parser.                                         *)
(***************************************************************************)
\* most lines of an input
MaxLines == 3

\* most entries of a YAML tunnels mapping
MaxTunnels == 2

SeqsUpTo(S, n) == UNION {[1..k -> S] : k \in 1..n}

INILines ==
    {<<"[", "a", "]">>, <<" ", "[", "b">>, <<"[", "]">>, <<>>, <<";", "[", "c">>, <<"t", "y", "p", "e", " ", "=", " ", "c", "l", "i", "e", "n", "t">>, <<"t", "y", "p", "e", " ", "c", "l", "i", "e", "n", "t">>,
     <<" ", "=", " ", "v">>, <<"p", "o", "r", "t", "=", "8", "0">>, <<"k", "e", "y", "s", " ", "=", " ", "k">>, <<"g", "z", "i", "p", " ", "=", " ", "1">>, <<"i", "2", "c", "p", ".", "x", " ", "=", " ", "4", ",", "0">>}

PropertiesLines ==
    {<<"n", "a", "m", "e", "=", "X">>, <<"t", "y", "p", "e", "=", "c", "l", "i", "e", "n", "t">>, <<"l", "i", "s", "t", "e", "n", "P", "o", "r", "t", "=", "8", "0">>, <<"l", "i", "s", "t", "e", "n", "P", "o", "r", "t", "=", "a", "b", "c">>,
     <<"o", "p", "t", "i", "o", "n", ".", "p", "e", "r", "s", "i", "s", "t", "e", "n", "t", "C", "l", "i", "e", "n", "t", "K", "e", "y", "=", "t", "r", "u", "e">>, <<"o", "p", "t", "i", "o", "n", ".", "p", "e", "r", "s", "i", "s", "t", "e", "n", "t", "C", "l", "i", "e", "n", "t", "K", "e", "y", "=", "y", "e", "s">>,
     <<"#", " ", "c">>, <<"c", "o", "n", "f", "i", "g", "F", "i", "l", "e", "=", "/", "p">>, <<"u", "n", "k", "n", "o", "w", "n", "=", "v">>, <<"t", "u", "n", "n", "e", "l", ".", "0", ".", "n", "a", "m", "e", "=", "N">>,
     <<"t", "a", "r", "g", "e", "t", "H", "o", "s", "t", "=", "h">>, <<"t", "a", "r", "g", "e", "t", "D", "e", "s", "t", "i", "n", "a", "t", "i", "o", "n", "=", "d">>, <<"o", "p", "t", "i", "o", "n", ".", "i", "2", "c", "p", ".", "x", "=", "4", ",", "0">>}

\* the field values of the mapping nodes of the YAML inputs
YAMLNodeValues ==
    [Name |-> <<"i", "n", "n", "e", "r">>, Type |-> <<"c", "l", "i", "e", "n", "t">>, Interface |-> <<>>, Port |-> 0,
     Target |-> <<>>, PersistentKey |-> FALSE, Description |-> <<>>,
     I2CP |-> (<<"x">> :> IntV(4)), Tunnel |-> EmptyMap,
     Inbound |-> (<<"l", "e", "n", "g", "t", "h">> :> IntV(3)), Outbound |-> EmptyMap]

NullNode == [null |-> TRUE, has |-> {}, v |-> YAMLNodeValues]

YAMLNodes ==
    {NullNode} \cup
    {[null |-> FALSE, has |-> {"name"} \cup h, v |-> YAMLNodeValues] :
        h \in SUBSET {"type", "i2cp", "options", "inbound", "outbound"}}

YAMLNames == {<<"A">>, <<"B">>, <<"C">>}

NoUnmarshalError == [failed |-> FALSE, line |-> 0, msg |-> ""]

YAMLDocs ==
    {[lines |-> <<>>, unmarshal |-> NoUnmarshalError, tunnels |-> f] :
        f \in UNION {[D -> YAMLNodes] : D \in {D \in SUBSET YAMLNames : Cardinality(D) <= MaxTunnels}}}
    \cup
    {[lines |-> <<<<"t", "u", "n", "n", "e", "l", "s", ":">>, <<" ", " ", "A", ":", " ", "[">>>>,
      unmarshal |-> [failed |-> TRUE, line |-> l, msg |-> "did not find expected node content"],
      tunnels |-> <<>>] : l \in {0, 2}}

InitParse ==
    /\ pc = "start"
    /\ ctx \in [Format : {"properties", "ini", "yaml"}]
    /\ input \in CASE ctx.Format = "properties" -> SeqsUpTo(PropertiesLines, MaxLines)
                   [] ctx.Format = "ini" -> SeqsUpTo(INILines, MaxLines)
                   [] ctx.Format = "yaml" -> YAMLDocs
    /\ config = NilConfig
    /\ err = NilErr
    /\ value = Unused /\ text = Unused /\ path = Unused /\ first = Unused

\* Converter.parseJavaProperties
ParseProperties ==
    /\ pc = "start" /\ ctx.Format = "properties"
    /\ config' = parseJavaProperties(input).config
    /\ err' = parseJavaProperties(input).err
    /\ pc' = "parsed"
    /\ UNCHANGED <<input, value, text, path, first, ctx>>

\* Converter.parseINI
ParseINI ==
    /\ pc = "start" /\ ctx.Format = "ini"
    /\ config' = parseINI(input).config
    /\ err' = parseINI(input).err
    /\ pc' = "parsed"
    /\ UNCHANGED <<input, value, text, path, first, ctx>>

\* Converter.parseYAML
ParseYAML ==
    /\ pc = "start" /\ ctx.Format = "yaml"
    /\ \E r \in parseYAML(input) : config' = r.config /\ err' = r.err
    /\ pc' = "parsed"
    /\ UNCHANGED <<input, value, text, path, first, ctx>>

NextParse == ParseProperties \/ ParseINI \/ ParseYAML

SpecParse == InitParse /\ [][NextParse]_vars

\* C1: after a successful parse in any of the three dialects all four option
\* groups of the returned config are non-null mappings
C1_GroupsNonNullAfterParse ==
    (pc = "parsed" /\ err = NilErr) => (~config.isNil /\ config.nilGroups = {})

\* the fault of one INI line as the specification words it: the name of the
\* fault, or "" for a line that has none
INIFaultOf(originalLine) ==
    LET line == TrimSpace(originalLine)
    IN  IF line = <<>> \/ line[1] \in {";", "#"} THEN ""
        ELSE IF line[1] = "[" /\ line[Len(line)] # "]" THEN "unclosed section bracket"
        ELSE IF line = <<"[", "]">> THEN "empty section name"
        ELSE IF line[1] = "[" THEN ""
        ELSE IF ~Contains(line, "=") THEN "expected key=value pair"
        ELSE IF TrimSpace(SubSeq(line, 1, IndexOf(line, "=") - 1)) = <<>> THEN "empty key name"
        ELSE ""

INIFaultLines(lines) == {i \in 1..Len(lines) : INIFaultOf(lines[i]) # ""}

\* the message parseINI gives for each fault
INIFaultMessage ==
    [f \in {"unclosed section bracket", "empty section name", "expected key=value pair", "empty key name"} |->
        CASE f = "unclosed section bracket" -> "unclosed section bracket - expected ']'"
          [] f = "empty section name" -> "empty section name - sections must have a name"
          [] f = "expected key=value pair" -> "expected key=value pair or section header [name]"
          [] f = "empty key name" -> "empty key name - key=value pairs must have a key"]

\* C6: parseINI returns, for the first faulty line, a ParseError with that
\* line's 1-indexed number and the fault's message and a nil config; with no
\* faulty line it returns a config and no error
C6_FirstFaultLocated ==
    (pc = "parsed" /\ ctx.Format = "ini") =>
        IF INIFaultLines(input) = {}
        THEN err = NilErr /\ ~config.isNil
        ELSE LET n == CHOOSE i \in INIFaultLines(input) : \A j \in INIFaultLines(input) : i <= j
             IN  /\ err.kind = "ParseError"
                 /\ err.Line = n
                 /\ err.Message = INIFaultMessage[INIFaultOf(input[n])]
                 /\ config.isNil

\* a fault on the second line, after a line that set a field, has been reported
C6_Witness ==
    /\ pc = "parsed" /\ ctx.Format = "ini"
    /\ Len(input) >= 2
    /\ input[1] = <<"t", "y", "p", "e", " ", "=", " ", "c", "l", "i", "e", "n", "t">>
    /\ INIFaultOf(input[2]) = "empty key name"
    /\ err.kind = "ParseError" /\ err.Line = 2 /\ config.isNil

\* C7: parseJavaProperties returns a config and a nil error for every input
\* and never aborts
C7_PropertiesParseNeverFails ==
    (pc = "parsed" /\ ctx.Format = "properties") => (err = NilErr /\ ~config.isNil)

(***************************************************************************)
(* Generators.  A generated text is the sequence of its lines, each        *)
(* written with a closing "\n"; Go ranges over a map in any order, so a    *)
(* generator has one text for every order of the keys of every group.      *)
(***************************************************************************)
\* the orders in which a range over the map m can visit its keys
KeyOrders(m) ==
    {o \in [1..Cardinality(DOMAIN m) -> DOMAIN m] : \A i, j \in DOMAIN o : o[i] = o[j] => i = j}

\* strings.ReplaceAll(s, old, new) for one-character old and new
ReplaceAll(s, old, new) == [i \in DOMAIN s |-> IF s[i] = old THEN new ELSE s[i]]

BoolText(b) == IF b THEN <<"t", "r", "u", "e">> ELSE <<"f", "a", "l", "s", "e">>

\* fmt.Sprint(v): a slice prints as its elements between brackets
Sprint(v) ==
    CASE v.t = "string" -> v.s
      [] v.t = "int" -> Itoa(v.i)
      [] v.t = "bool" -> BoolText(v.b)
      [] OTHER -> <<"[">> \o Join(v.l, <<" ">>) \o <<"]">>

\* fmt.Sprintf("%s", v): the verb does not fit an int or a bool
SprintfS(v) ==
    CASE v.t = "int" -> <<"%", "!", "s", "(", "i", "n", "t", "=">> \o Itoa(v.i) \o <<")">>
      [] v.t = "bool" -> <<"%", "!", "s", "(", "b", "o", "o", "l", "=">> \o BoolText(v.b) \o <<")">>
      [] OTHER -> Sprint(v)

\* formatPropertyValue
formatPropertyValue(v) == IF v.t = "[]string" THEN Join(v.l, <<",">>) ELSE Sprint(v)

\* formatINIValue
formatINIValue(v) ==
    CASE v.t = "[]string" -> Join(v.l, <<",", " ">>)
      [] v.t = "bool" -> BoolText(v.b)
      [] OTHER -> Sprint(v)

\* the keys of the Tunnel group that generateJavaProperties writes flat
PropertiesFlatKeys ==
    {<<"p", "r", "o", "x", "y", "L", "i", "s", "t">>, <<"s", "h", "a", "r", "e", "d", "C", "l", "i", "e", "n", "t">>, <<"s", "t", "a", "r", "t", "O", "n", "L", "o", "a", "d">>, <<"a", "c", "c", "e", "s", "s", "L", "i", "s", "t">>, <<"s", "p", "o", "o", "f", "e", "d", "H", "o", "s", "t">>, <<"t", "a", "r", "g", "e", "t", "P", "o", "r", "t">>}

\* generateJavaProperties: the lines written, for every order of the maps
generateJavaProperties(c) ==
    LET head == (IF c.Name # <<>> THEN <<<<"n", "a", "m", "e", "=">> \o c.Name>> ELSE <<>>)
             \o (IF c.Type # <<>> THEN <<<<"t", "y", "p", "e", "=">> \o c.Type>> ELSE <<>>)
             \o (IF c.Interface # <<>> THEN <<<<"i", "n", "t", "e", "r", "f", "a", "c", "e", "=">> \o c.Interface>> ELSE <<>>)
             \o (IF c.Port # 0 THEN <<<<"l", "i", "s", "t", "e", "n", "P", "o", "r", "t", "=">> \o Itoa(c.Port)>> ELSE <<>>)
             \o (IF c.Target # <<>> THEN <<<<"t", "a", "r", "g", "e", "t", "D", "e", "s", "t", "i", "n", "a", "t", "i", "o", "n", "=">> \o c.Target>> ELSE <<>>)
             \o (IF c.PersistentKey THEN <<<<"o", "p", "t", "i", "o", "n", ".", "p", "e", "r", "s", "i", "s", "t", "e", "n", "t", "C", "l", "i", "e", "n", "t", "K", "e", "y", "=", "t", "r", "u", "e">>>> ELSE <<>>)
             \o (IF c.Description # <<>> THEN <<<<"d", "e", "s", "c", "r", "i", "p", "t", "i", "o", "n", "=">> \o c.Description>> ELSE <<>>)
        tunnelLine(k) ==
            IF k \in PropertiesFlatKeys
            THEN k \o <<"=">> \o formatPropertyValue(c.Tunnel[k])
            ELSE <<"o", "p", "t", "i", "o", "n", ".", "i", "2", "p", "t", "u", "n", "n", "e", "l", ".">> \o k \o <<"=">> \o formatPropertyValue(c.Tunnel[k])
    IN  {head
         \o [i \in DOMAIN oi |-> <<"o", "p", "t", "i", "o", "n", ".", "i", "2", "c", "p", ".">> \o oi[i] \o <<"=">> \o formatPropertyValue(c.I2CP[oi[i]])]
         \o [i \in DOMAIN ot |-> tunnelLine(ot[i])]
         \o [i \in DOMAIN oin |-> <<"o", "p", "t", "i", "o", "n", ".", "i", "n", "b", "o", "u", "n", "d", ".">> \o oin[i] \o <<"=">> \o formatPropertyValue(c.Inbound[oin[i]])]
         \o [i \in DOMAIN oout |-> <<"o", "p", "t", "i", "o", "n", ".", "o", "u", "t", "b", "o", "u", "n", "d", ".">> \o oout[i] \o <<"=">> \o formatPropertyValue(c.Outbound[oout[i]])]
         : oi \in KeyOrders(c.I2CP), ot \in KeyOrders(c.Tunnel),
           oin \in KeyOrders(c.Inbound), oout \in KeyOrders(c.Outbound)}

\* generateINI: the lines written, for every order of the maps
generateINI(c) ==
    LET keyName == IF ReplaceAll(c.Name, " ", "_") = <<>> THEN <<"t", "u", "n", "n", "e", "l">> ELSE ReplaceAll(c.Name, " ", "_")
        head == (IF c.Name # <<>> THEN <<<<"[">> \o c.Name \o <<"]">>>> ELSE <<>>)
             \o (IF c.Type # <<>> THEN <<<<"t", "y", "p", "e", " ", "=", " ">> \o c.Type>> ELSE <<>>)
             \o (IF c.Interface # <<>> THEN <<<<"h", "o", "s", "t", " ", "=", " ">> \o c.Interface>> ELSE <<>>)
             \o (IF c.Port # 0 THEN <<<<"p", "o", "r", "t", " ", "=", " ">> \o Itoa(c.Port)>> ELSE <<>>)
             \o (IF c.Target = <<>> THEN <<>>
                 ELSE IF c.Type \in {<<"s", "e", "r", "v", "e", "r">>, <<"h", "t", "t", "p", "s", "e", "r", "v", "e", "r">>, <<"i", "r", "c", "s", "e", "r", "v", "e", "r">>}
                 THEN <<<<"a", "d", "d", "r", "e", "s", "s", " ", "=", " ">> \o c.Target>>
                 ELSE <<<<"d", "e", "s", "t", "i", "n", "a", "t", "i", "o", "n", " ", "=", " ">> \o c.Target>>)
             \o (IF c.Description # <<>> THEN <<<<"d", "e", "s", "c", "r", "i", "p", "t", "i", "o", "n", " ", "=", " ">> \o c.Description>> ELSE <<>>)
             \o (IF ~c.PersistentKey THEN <<<<"k", "e", "y", "s", " ", "=", " ", "t", "r", "a", "n", "s", "i", "e", "n", "t">>>>
                 ELSE IF <<"k", "e", "y", "f", "i", "l", "e">> \in DOMAIN c.Tunnel
                 THEN <<<<"k", "e", "y", "s", " ", "=", " ">> \o SprintfS(c.Tunnel[<<"k", "e", "y", "f", "i", "l", "e">>])>>
                 ELSE <<<<"k", "e", "y", "s", " ", "=", " ">> \o keyName \o <<".", "d", "a", "t">>>>)
        tunnelLines(k) ==
            IF k = <<"k", "e", "y", "f", "i", "l", "e">> THEN <<>> ELSE <<k \o <<" ", "=", " ">> \o formatINIValue(c.Tunnel[k])>>
        RECURSIVE tunnelFrom(_, _)
        tunnelFrom(o, i) == IF i > Len(o) THEN <<>> ELSE tunnelLines(o[i]) \o tunnelFrom(o, i + 1)
    IN  {head
         \o [i \in DOMAIN oi |-> <<"i", "2", "c", "p", ".">> \o oi[i] \o <<" ", "=", " ">> \o formatINIValue(c.I2CP[oi[i]])]
         \o tunnelFrom(ot, 1)
         \o [i \in DOMAIN oin |-> <<"i", "n", "b", "o", "u", "n", "d", ".">> \o oin[i] \o <<" ", "=", " ">> \o formatINIValue(c.Inbound[oin[i]])]
         \o [i \in DOMAIN oout |-> <<"o", "u", "t", "b", "o", "u", "n", "d", ".">> \o oout[i] \o <<" ", "=", " ">> \o formatINIValue(c.Outbound[oout[i]])]
         : oi \in KeyOrders(c.I2CP), ot \in KeyOrders(c.Tunnel),
           oin \in KeyOrders(c.Inbound), oout \in KeyOrders(c.Outbound)}

\* yaml.Marshal of one TunnelConfig: name and type are always written, the
\* other fields and the groups only when they are not empty
MarshalNode(c) ==
    [null |-> FALSE,
     has |-> {"name", "type"}
             \cup (IF c.Interface # <<>> THEN {"interface"} ELSE {})
             \cup (IF c.Port # 0 THEN {"port"} ELSE {})
             \cup (IF c.Target # <<>> THEN {YAMLTargetKey} ELSE {})
             \cup (IF c.PersistentKey THEN {"persistentKey"} ELSE {})
             \cup (IF c.Description # <<>> THEN {"description"} ELSE {})
             \cup {YAMLGroupKey[g] : g \in {g \in Groups : DOMAIN c[g] # {}}},
     v |-> [Name |-> c.Name, Type |-> c.Type, Interface |-> c.Interface, Port |-> c.Port,
            Target |-> c.Target, PersistentKey |-> c.PersistentKey, Description |-> c.Description,
            I2CP |-> c.I2CP, Tunnel |-> c.Tunnel, Inbound |-> c.Inbound, Outbound |-> c.Outbound]]

\* generateYAML: the document with the one entry keyed by the config's name
generateYAML(c) ==
    {[lines |-> <<>>, unmarshal |-> [failed |-> FALSE, line |-> 0, msg |-> ""],
      tunnels |-> (c.Name :> MarshalNode(c))]}

\* Converter.generateOutput: every output the call can have
generateOutput(c, format) ==
    CASE format = "properties" -> {[text |-> x, err |-> NilErr] : x \in generateJavaProperties(c)}
      [] format = "yaml" -> {[text |-> x, err |-> NilErr] : x \in generateYAML(c)}
      [] format = "ini" -> {[text |-> x, err |-> NilErr] : x \in generateINI(c)}
      [] OTHER -> {[text |-> <<>>, err |-> PlainError("unsupported output format")]}

\* Converter.parseInput: every result the call can have
parseInput(in, format) ==
    CASE format = "properties" -> {parseJavaProperties(in)}
      [] format = "yaml" -> parseYAML(in)
      [] format = "ini" -> {parseINI(in)}
      [] OTHER -> {[config |-> NilConfig, err |-> PlainError("unsupported input format")]}

\* the input a generated text is: strings.Split(text, "\n") ends with the
\* empty string after the last "\n"; a YAML text is read back as its document
TextInput(x, format) == IF format = "yaml" THEN x ELSE x \o << <<>> >>

(***************************************************************************)
(* Specification SpecRound: a well-formed input is parsed, and the config  *)
(* is then generated in some dialect and parsed back, again and again.     *)
(***************************************************************************)
\* most lines of a first input
MaxRoundLines == 2

\* most dialects one config passes through, the first included
MaxHops == 3

Dialects == {"properties", "ini", "yaml"}

RoundPropertiesLines ==
    {<<"n", "a", "m", "e", "=", "X">>, <<"t", "y", "p", "e", "=", "c", "l", "i", "e", "n", "t">>, <<"l", "i", "s", "t", "e", "n", "P", "o", "r", "t", "=", "8", "0">>, <<"i", "n", "t", "e", "r", "f", "a", "c", "e", "=", "h">>,
     <<"o", "p", "t", "i", "o", "n", ".", "p", "e", "r", "s", "i", "s", "t", "e", "n", "t", "C", "l", "i", "e", "n", "t", "K", "e", "y", "=", "t", "r", "u", "e">>, <<"o", "p", "t", "i", "o", "n", ".", "i", "2", "p", "t", "u", "n", "n", "e", "l", ".", "t", "y", "p", "e", "=", "f", "o", "o">>,
     <<"t", "a", "r", "g", "e", "t", "D", "e", "s", "t", "i", "n", "a", "t", "i", "o", "n", "=", "d">>, <<"o", "p", "t", "i", "o", "n", ".", "i", "2", "c", "p", ".", "x", "=", "4", ",", "0">>}

RoundINILines ==
    {<<"[", "a", "]">>, <<"t", "y", "p", "e", " ", "=", " ", "s", "e", "r", "v", "e", "r">>, <<"p", "o", "r", "t", " ", "=", " ", "8", "0">>, <<"h", "o", "s", "t", " ", "=", " ", "h">>, <<"k", "e", "y", "s", " ", "=", " ", "k", ".", "d", "a", "t">>,
     <<"k", "e", "y", "f", "i", "l", "e", " ", "=", " ", "t", "r", "a", "n", "s", "i", "e", "n", "t">>, <<"a", "d", "d", "r", "e", "s", "s", " ", "=", " ", "d">>, <<"i", "2", "c", "p", ".", "x", " ", "=", " ", "4", ",", " ", "0">>, <<"g", "z", "i", "p", " ", "=", " ", "1">>}

RoundYAMLValues ==
    [Name |-> <<"i", "n", "n", "e", "r">>, Type |-> <<"c", "l", "i", "e", "n", "t">>, Interface |-> <<"h">>, Port |-> 80,
     Target |-> <<"d">>, PersistentKey |-> TRUE, Description |-> <<>>,
     I2CP |-> (<<"x">> :> AnyListV(<<<<"4">>, <<"0">>>>)), Tunnel |-> (<<"p", "o", "r", "t">> :> IntV(81)),
     Inbound |-> EmptyMap, Outbound |-> EmptyMap]

RoundYAMLDocs ==
    {[lines |-> <<>>, unmarshal |-> NoUnmarshalError,
      tunnels |-> (<<"A">> :> [null |-> FALSE, has |-> {"type"} \cup h, v |-> RoundYAMLValues])] :
        h \in SUBSET {"interface", "port", YAMLTargetKey, "persistentKey", "i2cp", "options"}}

InitRound ==
    /\ pc = "start"
    /\ ctx \in [Format : Dialects]
    /\ input \in CASE ctx.Format = "properties" -> SeqsUpTo(RoundPropertiesLines, MaxRoundLines)
                   [] ctx.Format = "ini" -> SeqsUpTo(RoundINILines, MaxRoundLines)
                   [] ctx.Format = "yaml" -> RoundYAMLDocs
    /\ config = NilConfig
    /\ first = NilConfig
    /\ err = NilErr
    /\ path = <<>>
    /\ text = <<>>
    /\ value = Unused

\* parseInput on the first input
ParseFirst ==
    /\ pc = "start"
    /\ \E r \in parseInput(input, ctx.Format) :
          /\ config' = r.config /\ first' = r.config /\ err' = r.err
          /\ pc' = IF r.err = NilErr THEN "parsed" ELSE "failed"
    /\ path' = <<ctx.Format>>
    /\ UNCHANGED <<input, value, text, ctx>>

\* generateOutput on the config last parsed
GenerateOutput ==
    /\ pc = "parsed" /\ Len(path) < MaxHops
    /\ \E format \in Dialects : \E r \in generateOutput(config, format) :
          /\ text' = r.text /\ err' = r.err
          /\ path' = Append(path, format)
          /\ pc' = IF r.err = NilErr THEN "generated" ELSE "failed"
    /\ UNCHANGED <<input, value, config, first, ctx>>

\* parseInput on the text last generated
ParseGenerated ==
    /\ pc = "generated"
    /\ \E r \in parseInput(TextInput(text, path[Len(path)]), path[Len(path)]) :
          /\ config' = r.config /\ err' = r.err
          /\ pc' = IF r.err = NilErr THEN "parsed" ELSE "failed"
    /\ UNCHANGED <<input, value, text, path, first, ctx>>

NextRound == ParseFirst \/ GenerateOutput \/ ParseGenerated

SpecRound == InitRound /\ [][NextRound]_vars

\* the fields a same-dialect round trip is to keep
RoundTripFields(c) == <<c.Name, c.Type, c.Interface, c.Port, c.Target, c.PersistentKey>>

\* the fields a cross-dialect round trip is to keep
CrossFormatFields(c) == <<c.Name, c.Type, c.Interface, c.Port>>

\* C2: for each dialect D and every config parsed from a well-formed D input,
\* parsing generateOutput(c, D) succeeds and yields a config equal to c on
\* Name, Type, Interface, Port, Target and PersistentKey
C2_SameDialectRoundTrip ==
    (Len(path) = 2 /\ path[1] = path[2] /\ pc \in {"parsed", "failed"}) =>
        (pc = "parsed" /\ RoundTripFields(config) = RoundTripFields(first))

\* C3: a config parsed from A, generated as B, parsed from B, generated back
\* as A and parsed again has the Name, Type, Interface and Port of the config
\* first parsed, and no step after the first parse fails
C3_CrossFormatRoundTrip ==
    /\ (Len(path) >= 2 /\ Len(path) <= 3) => pc # "failed"
    /\ (Len(path) = 3 /\ path[1] = path[3] /\ pc = "parsed") =>
            CrossFormatFields(config) = CrossFormatFields(first)

(***************************************************************************)
(* Claims on the order and the outcome of Validate (SpecValidate)          *)
(***************************************************************************)
\* C11: whenever Validate returns no error, for any strict flag, dialect and
\* Type, Name and Type are non-empty and Name holds no space, tab, newline,
\* carriage return, '=', '[' or ']'
C11_NameAndTypeAfterValidate ==
    (pc = "validated" /\ err = NoErr) =>
        /\ config.Name # <<>>
        /\ config.Type # <<>>
        /\ \A i \in 1..Len(config.Name) :
              config.Name[i] \notin {" ", "\t", "\n", "\r", "=", "[", "]"}

\* Validate has passed a config of an unknown type in non-strict mode
C11_Witness ==
    /\ pc = "validated" /\ err = NoErr
    /\ ~ctx.Strict /\ config.Type = <<"b", "o", "g", "u", "s">> /\ config.Name = <<"a", ".", "b">>


\* the checks of Validate on c in their fixed order, each evaluated on its
\* own: NoErr for a check that passes, its error for one that fails
ChecksInOrder(c, strict, format) ==
    LET known == ToLower(c.Type) \in DOMAIN TunnelSpecs
        rules == IF known THEN TunnelSpecs[ToLower(c.Type)] ELSE <<>>
        formatCheck(r) ==
            IF callValidator(r.Validator, c, strict) # NoErr
            THEN Err(r.Description, callValidator(r.Validator, c, strict).msg)
            ELSE NoErr
    IN  << IF c.Name = <<>> THEN Err("", "tunnel name is required") ELSE NoErr,
           IF c.Type = <<>> THEN Err("", "tunnel type is required") ELSE NoErr,
           IF \E i \in 1..Len(c.Name) : c.Name[i] \in {" ", "\t", "\n", "\r", "=", "[", "]"}
           THEN Err("", "tunnel name contains invalid characters") ELSE NoErr,
           IF ~known /\ strict THEN Err("", "unknown tunnel type") ELSE NoErr >>
        \o [k \in 1..(2 * Len(rules)) |->
               IF k % 2 = 1 THEN requiredMissing(c, rules[(k + 1) \div 2])
               ELSE formatCheck(rules[k \div 2])]
        \o << validateFormatSpecific(c, strict, format) >>

\* the error of the first failing check of a sequence of checks, NoErr if none fails
FirstFailure(checks) ==
    IF \A k \in 1..Len(checks) : checks[k] = NoErr THEN NoErr
    ELSE checks[CHOOSE k \in 1..Len(checks) :
                    checks[k] # NoErr /\ \A j \in 1..(k - 1) : checks[j] = NoErr]

\* C12: for a Type that is, compared case-insensitively, none of the twelve
\* known types and a config passing the Name/Type checks, Validate returns
\* the 'unknown tunnel type' error in strict mode and no error otherwise,
\* whatever the port, target and interface; a known type in any letter case
\* is validated with that type's rules
C12_UnknownTypeStrictOnly ==
    (pc = "validated" /\ ValidName(config) /\ config.Type # <<>>) =>
        IF ToLower(config.Type) \notin
              {<<"h", "t", "t", "p", "c", "l", "i", "e", "n", "t">>, <<"s", "o", "c", "k", "s", "t", "u", "n", "n", "e", "l">>, <<"s", "o", "c", "k", "s", "s", "e", "r", "v", "e", "r">>, <<"i", "r", "c", "c", "l", "i", "e", "n", "t">>, <<"c", "l", "i", "e", "n", "t">>,
               <<"s", "t", "r", "e", "a", "m", "r", "c", "l", "i", "e", "n", "t">>, <<"h", "t", "t", "p", "s", "e", "r", "v", "e", "r">>, <<"s", "e", "r", "v", "e", "r">>, <<"i", "r", "c", "s", "e", "r", "v", "e", "r">>,
               <<"s", "t", "r", "e", "a", "m", "r", "s", "e", "r", "v", "e", "r">>, <<"h", "t", "t", "p", "b", "i", "d", "i", "r", "s", "e", "r", "v", "e", "r">>, <<"s", "o", "c", "k", "s", "i", "r", "c">>}
        THEN err = IF ctx.Strict THEN Err("", "unknown tunnel type") ELSE NoErr
        ELSE /\ err.msg # "unknown tunnel type"
             /\ err = FirstFailure(ChecksInOrder([config EXCEPT !.Type = ToLower(config.Type)],
                                                 ctx.Strict, ctx.Format))
             /\ (ToLower(config.Type) \in PortRequiredTypes /\ config.Port <= 0)
                    => err.desc \in LocalPortRequiredTexts

\* an unknown type passes in non-strict mode with a port, a target and an
\* interface that no rule would accept
C12_Witness ==
    /\ pc = "validated" /\ ~ctx.Strict /\ err = NoErr
    /\ config.Type = <<"b", "o", "g", "u", "s">> /\ config.Port = 65536
    /\ config.Target = <<"a", ":", "b", ":", "c">> /\ config.Interface = <<"e", " ", "0">>

\* a known type written in capitals has been refused by its own port rule
C12_WitnessKnownCase ==
    /\ pc = "validated" /\ ctx.Strict
    /\ config.Type = <<"H", "T", "T", "P", "C", "l", "i", "e", "n", "t">> /\ config.Name = <<"t">> /\ config.Port = 0
    /\ err.desc = "Local port is required for HTTP client"

\* C13: Validate returns the error of the first failing check in the order
\* Name empty, Type empty, Name characters, unknown type (strict only), the
\* type's rules in table order with each rule's required-check before its
\* format check, then the dialect constraint; later checks do not change it
C13_FirstFailingCheckReturned ==
    pc = "validated" => err = FirstFailure(ChecksInOrder(config, ctx.Strict, ctx.Format))

\* a config failing the port rule, the interface rule and the dialect
\* constraint at once has been refused with the port rule's error
C13_Witness ==
    /\ pc = "validated" /\ ctx.Strict /\ ctx.Format = "properties"
    /\ config.Name = <<"a", ".", "b">> /\ config.Type = <<"h", "t", "t", "p", "c", "l", "i", "e", "n", "t">>
    /\ config.Port = 0 /\ config.Interface = <<"e", " ", "0">> /\ config.Target = <<"a", ":", "b", ":", "c">>
    /\ err = Err("Local port is required for HTTP client", "port must be specified and greater than 0")


(***************************************************************************)
(* Specification SpecProps: parseJavaProperties on inputs that set one     *)
(* field by several keys: flat, aliased and numbered.                      *)
(***************************************************************************)
\* most lines of an input of SpecProps
MaxPropLines == 2

\* flat lines that set a core field, with the field and the value written
FlatFieldLines ==
    {[line |-> <<"n", "a", "m", "e", "=", "X">>, field |-> "Name", value |-> <<"X">>],
     [line |-> <<"n", "a", "m", "e", "=">>, field |-> "Name", value |-> <<>>],
     [line |-> <<"t", "y", "p", "e", "=", "c", "l", "i", "e", "n", "t">>, field |-> "Type", value |-> <<"c", "l", "i", "e", "n", "t">>],
     [line |-> <<"i", "n", "t", "e", "r", "f", "a", "c", "e", "=", "i">>, field |-> "Interface", value |-> <<"i">>],
     [line |-> <<"l", "i", "s", "t", "e", "n", "P", "o", "r", "t", "=", "8", "0">>, field |-> "Port", value |-> <<"8", "0">>],
     [line |-> <<"l", "i", "s", "t", "e", "n", "P", "o", "r", "t", "=", "0">>, field |-> "Port", value |-> <<"0">>],
     [line |-> <<"t", "a", "r", "g", "e", "t", "D", "e", "s", "t", "i", "n", "a", "t", "i", "o", "n", "=", "d">>, field |-> "Target", value |-> <<"d">>],
     [line |-> <<"t", "a", "r", "g", "e", "t", "H", "o", "s", "t", "=", "h">>, field |-> "Target", value |-> <<"h">>],
     [line |-> <<"d", "e", "s", "c", "r", "i", "p", "t", "i", "o", "n", "=", "D">>, field |-> "Description", value |-> <<"D">>]}

\* numbered lines that name a core field
NumberedFieldLines ==
    {[line |-> <<"t", "u", "n", "n", "e", "l", ".", "0", ".", "n", "a", "m", "e", "=", "N">>, field |-> "Name", value |-> <<"N">>],
     [line |-> <<"t", "u", "n", "n", "e", "l", ".", "1", ".", "t", "y", "p", "e", "=", "s", "e", "r", "v", "e", "r">>, field |-> "Type", value |-> <<"s", "e", "r", "v", "e", "r">>],
     [line |-> <<"t", "u", "n", "n", "e", "l", ".", "0", ".", "i", "n", "t", "e", "r", "f", "a", "c", "e", "=", "j">>, field |-> "Interface", value |-> <<"j">>],
     [line |-> <<"t", "u", "n", "n", "e", "l", ".", "0", ".", "l", "i", "s", "t", "e", "n", "P", "o", "r", "t", "=", "8", "1">>, field |-> "Port", value |-> <<"8", "1">>],
     [line |-> <<"t", "u", "n", "n", "e", "l", ".", "0", ".", "t", "a", "r", "g", "e", "t", "D", "e", "s", "t", "i", "n", "a", "t", "i", "o", "n", "=", "e">>, field |-> "Target", value |-> <<"e">>],
     [line |-> <<"t", "u", "n", "n", "e", "l", ".", "2", ".", "t", "a", "r", "g", "e", "t", "H", "o", "s", "t", "=", "g">>, field |-> "Target", value |-> <<"g">>],
     [line |-> <<"t", "u", "n", "n", "e", "l", ".", "0", ".", "d", "e", "s", "c", "r", "i", "p", "t", "i", "o", "n", "=", "E">>, field |-> "Description", value |-> <<"E">>]}

\* numbered lines whose property is an option key
NumberedOptionLines ==
    {<<"t", "u", "n", "n", "e", "l", ".", "0", ".", "o", "p", "t", "i", "o", "n", ".", "i", "2", "c", "p", ".", "x", "=", "5">>, <<"t", "u", "n", "n", "e", "l", ".", "0", ".", "o", "p", "t", "i", "o", "n", ".", "i", "n", "b", "o", "u", "n", "d", ".", "x", "=", "5">>,
     <<"t", "u", "n", "n", "e", "l", ".", "0", ".", "o", "p", "t", "i", "o", "n", ".", "o", "u", "t", "b", "o", "u", "n", "d", ".", "x", "=", "5">>, <<"t", "u", "n", "n", "e", "l", ".", "0", ".", "o", "p", "t", "i", "o", "n", ".", "i", "2", "p", "t", "u", "n", "n", "e", "l", ".", "x", "=", "5">>,
     <<"t", "u", "n", "n", "e", "l", ".", "0", ".", "i", "2", "c", "p", "H", "o", "s", "t", "=", "r">>, <<"t", "u", "n", "n", "e", "l", ".", "0", ".", "o", "p", "t", "i", "o", "n", ".", "p", "e", "r", "s", "i", "s", "t", "e", "n", "t", "C", "l", "i", "e", "n", "t", "K", "e", "y", "=", "t", "r", "u", "e">>}

PropsLines ==
    {r.line : r \in FlatFieldLines} \cup {r.line : r \in NumberedFieldLines}
    \cup NumberedOptionLines

InitProps ==
    /\ pc = "start"
    /\ ctx = [Format |-> "properties"]
    /\ input \in SeqsUpTo(PropsLines, MaxPropLines)
    /\ config = NilConfig
    /\ err = NilErr
    /\ value = Unused /\ text = Unused /\ path = Unused /\ first = Unused

NextProps == ParseProperties

SpecProps == InitProps /\ [][NextProps]_vars

\* the lines of the input
InputLines == {input[i] : i \in 1..Len(input)}

\* the place of the first occurrence of a line of the input
FirstAt(line) == CHOOSE i \in 1..Len(input) : input[i] = line /\ \A j \in 1..(i - 1) : input[j] # line

\* the field of a config as text
FieldText(c, f) == IF f = "Port" THEN Itoa(c.Port) ELSE c[f]

\* C14: with both targetDestination and targetHost as flat keys, Target is
\* the value of the one that appears first in the input
C14_FirstTargetAliasWins ==
    (pc = "parsed" /\ err = NilErr
        /\ <<"t", "a", "r", "g", "e", "t", "D", "e", "s", "t", "i", "n", "a", "t", "i", "o", "n", "=", "d">> \in InputLines /\ <<"t", "a", "r", "g", "e", "t", "H", "o", "s", "t", "=", "h">> \in InputLines) =>
        config.Target = IF FirstAt(<<"t", "a", "r", "g", "e", "t", "D", "e", "s", "t", "i", "n", "a", "t", "i", "o", "n", "=", "d">>) < FirstAt(<<"t", "a", "r", "g", "e", "t", "H", "o", "s", "t", "=", "h">>)
                        THEN <<"d">> ELSE <<"h">>


\* the flat, respectively numbered, lines of the input that name field f
FlatOf(f) == {r \in FlatFieldLines : r.field = f /\ r.line \in InputLines}

NumberedOf(f) == {r \in NumberedFieldLines : r.field = f /\ r.line \in InputLines}

CoreFields == {"Name", "Type", "Interface", "Port", "Target", "Description"}

\* a flat value that leaves the field unset: the empty string, the port 0
UnsetValue(f) == IF f = "Port" THEN <<"0">> ELSE <<>>

\* C15 as stated: with one flat and a numbered key for a field, the parsed
\* field equals the flat value whatever the order of the lines
C15_FlatValueWins ==
    (pc = "parsed" /\ err = NilErr) =>
        \A f \in CoreFields : \A r \in FlatOf(f) :
            (FlatOf(f) = {r} /\ NumberedOf(f) # {}) => FieldText(config, f) = r.value

\* C15 amended: with one flat key whose value is non-empty (for Port: not 0)
\* and a numbered key for a field, the parsed field equals the flat value
\* whatever the order of the lines; a flat key with the empty value (port 0)
\* leaves the field unset, so a numbered line after it fills the field and
\* a numbered line before it is overwritten by the empty value; with no
\* flat key for the field a single numbered key gives the field its value
C15_NonEmptyFlatValueWins ==
    (pc = "parsed" /\ err = NilErr) =>
        \A f \in CoreFields :
            /\ \A r \in FlatOf(f) : \A n \in NumberedOf(f) :
                  (FlatOf(f) = {r} /\ NumberedOf(f) = {n}) =>
                      FieldText(config, f) =
                          IF r.value # UnsetValue(f) THEN r.value
                          ELSE IF FirstAt(r.line) < FirstAt(n.line) THEN n.value
                          ELSE r.value
            /\ \A n \in NumberedOf(f) :
                  (FlatOf(f) = {} /\ NumberedOf(f) = {n}) => FieldText(config, f) = n.value

\* a flat name written after a numbered name has replaced it
C15_Witness ==
    /\ pc = "parsed" /\ err = NilErr
    /\ input = <<<<"t", "u", "n", "n", "e", "l", ".", "0", ".", "n", "a", "m", "e", "=", "N">>, <<"n", "a", "m", "e", "=", "X">>>>
    /\ config.Name = <<"X">>

\* C16: a numbered key whose property is an option key is routed as the same
\* property would be as a flat or prefixed key
C16_NumberedOptionsRouted ==
    (pc = "parsed" /\ err = NilErr) =>
        /\ <<"t", "u", "n", "n", "e", "l", ".", "0", ".", "o", "p", "t", "i", "o", "n", ".", "i", "2", "c", "p", ".", "x", "=", "5">> \in InputLines =>
              (<<"x">> \in DOMAIN config.I2CP /\ config.I2CP[<<"x">>] = IntV(5))
        /\ <<"t", "u", "n", "n", "e", "l", ".", "0", ".", "o", "p", "t", "i", "o", "n", ".", "i", "n", "b", "o", "u", "n", "d", ".", "x", "=", "5">> \in InputLines =>
              (<<"x">> \in DOMAIN config.Inbound /\ config.Inbound[<<"x">>] = IntV(5))
        /\ <<"t", "u", "n", "n", "e", "l", ".", "0", ".", "o", "p", "t", "i", "o", "n", ".", "o", "u", "t", "b", "o", "u", "n", "d", ".", "x", "=", "5">> \in InputLines =>
              (<<"x">> \in DOMAIN config.Outbound /\ config.Outbound[<<"x">>] = IntV(5))
        /\ <<"t", "u", "n", "n", "e", "l", ".", "0", ".", "o", "p", "t", "i", "o", "n", ".", "i", "2", "p", "t", "u", "n", "n", "e", "l", ".", "x", "=", "5">> \in InputLines =>
              (<<"x">> \in DOMAIN config.Tunnel /\ config.Tunnel[<<"x">>] = IntV(5))
        /\ <<"t", "u", "n", "n", "e", "l", ".", "0", ".", "i", "2", "c", "p", "H", "o", "s", "t", "=", "r">> \in InputLines =>
              (<<"h", "o", "s", "t">> \in DOMAIN config.I2CP /\ config.I2CP[<<"h", "o", "s", "t">>] = StrV(<<"r">>))
        /\ <<"t", "u", "n", "n", "e", "l", ".", "0", ".", "o", "p", "t", "i", "o", "n", ".", "p", "e", "r", "s", "i", "s", "t", "e", "n", "t", "C", "l", "i", "e", "n", "t", "K", "e", "y", "=", "t", "r", "u", "e">> \in InputLines => config.PersistentKey


(***************************************************************************)
(* Specification SpecINIOptions: parseINI on inputs that give option keys  *)
(* of every routing the values 1 and 0.                                    *)
(***************************************************************************)
\* most lines of an input of SpecINIOptions
MaxOptionLines == 2

\* the keys parseINIKeyValue hands to parseINIBooleanValue
INIBooleanKeys == {<<"g", "z", "i", "p">>, <<"m", "u", "l", "t", "i", "c", "a", "s", "t">>, <<"m", "a", "p", "t", "o", "l", "o", "o", "p", "b", "a", "c", "k">>, <<"e", "n", "a", "b", "l", "e", "u", "n", "i", "q", "u", "e", "l", "o", "c", "a", "l">>}

\* keys that go through parseINIValue, with the group and the key they land in
INIGenericKeys ==
    {[key |-> <<"s", "i", "g", "n", "a", "t", "u", "r", "e", "t", "y", "p", "e">>, group |-> "Tunnel", as |-> <<"s", "i", "g", "n", "a", "t", "u", "r", "e", "t", "y", "p", "e">>],
     [key |-> <<"a", "c", "c", "e", "s", "s", "l", "i", "s", "t">>, group |-> "Tunnel", as |-> <<"a", "c", "c", "e", "s", "s", "l", "i", "s", "t">>],
     [key |-> <<"e", "x", "p", "l", "i", "c", "i", "t", "p", "e", "e", "r", "s">>, group |-> "Tunnel", as |-> <<"e", "x", "p", "l", "i", "c", "i", "t", "p", "e", "e", "r", "s">>],
     [key |-> <<"f", "o", "o">>, group |-> "Tunnel", as |-> <<"f", "o", "o">>],
     [key |-> <<"i", "2", "c", "p", ".", "x">>, group |-> "I2CP", as |-> <<"x">>],
     [key |-> <<"c", "r", "y", "p", "t", "o", ".", "x">>, group |-> "Tunnel", as |-> <<"c", "r", "y", "p", "t", "o", ".", "x">>],
     [key |-> <<"s", "t", "r", "e", "a", "m", "r", ".", "x">>, group |-> "Tunnel", as |-> <<"s", "t", "r", "e", "a", "m", "r", ".", "x">>],
     [key |-> <<"i", "n", "b", "o", "u", "n", "d", ".", "x">>, group |-> "Inbound", as |-> <<"x">>],
     [key |-> <<"o", "u", "t", "b", "o", "u", "n", "d", ".", "x">>, group |-> "Outbound", as |-> <<"x">>]}

\* keys stored as the text of the value
INITextKeys == {<<"w", "e", "b", "i", "r", "c", "p", "a", "s", "s", "w", "o", "r", "d">>, <<"h", "o", "s", "t", "o", "v", "e", "r", "r", "i", "d", "e">>}

OptionLine(k, v) == k \o <<" ", "=", " ">> \o v

INIOptionLines ==
    {OptionLine(k, v) :
        k \in INIBooleanKeys \cup {r.key : r \in INIGenericKeys} \cup INITextKeys,
        v \in {<<"1">>, <<"0">>}}

InitINIOptions ==
    /\ pc = "start"
    /\ ctx = [Format |-> "ini"]
    /\ input \in SeqsUpTo(INIOptionLines, MaxOptionLines)
    /\ config = NilConfig
    /\ err = NilErr
    /\ value = Unused /\ text = Unused /\ path = Unused /\ first = Unused

NextINIOptions == ParseINI

SpecINIOptions == InitINIOptions /\ [][NextINIOptions]_vars

\* the value the last line of the input for key k gives it: "1", "0", or
\* <<>> when no line names k
LastValueOf(k) ==
    LET at == {i \in 1..Len(input) : \E v \in {<<"1">>, <<"0">>} : input[i] = OptionLine(k, v)}
    IN  IF at = {} THEN <<>>
        ELSE LET i == CHOOSE i \in at : \A j \in at : j <= i
             IN  IF input[i] = OptionLine(k, <<"1">>) THEN <<"1">> ELSE <<"0">>

\* C17: parseINI stores 1 and 0 as the booleans true and false only for
\* gzip, multicast, maptoloopback and enableuniquelocal; for every key that
\* goes through generic coercion they are stored as the integers 1 and 0
C17_NumericBooleansOnlyForBooleanKeys ==
    pc = "parsed" =>
        /\ err = NilErr
        /\ \A k \in INIBooleanKeys : LastValueOf(k) # <<>> =>
              (k \in DOMAIN config.Tunnel /\ config.Tunnel[k] = BoolV(LastValueOf(k) = <<"1">>))
        /\ \A r \in INIGenericKeys : LastValueOf(r.key) # <<>> =>
              /\ r.as \in DOMAIN config[r.group]
              /\ config[r.group][r.as] = IntV(IF LastValueOf(r.key) = <<"1">> THEN 1 ELSE 0)
        /\ \A g \in Groups : \A k \in DOMAIN config[g] :
              config[g][k].t = "bool" => (g = "Tunnel" /\ k \in INIBooleanKeys)

\* gzip = 1 has been stored as true and i2cp.x = 1 as the integer 1
C17_Witness ==
    /\ pc = "parsed" /\ err = NilErr
    /\ input = <<OptionLine(<<"g", "z", "i", "p">>, <<"1">>), OptionLine(<<"i", "2", "c", "p", ".", "x">>, <<"1">>)>>
    /\ config.Tunnel[<<"g", "z", "i", "p">>] = BoolV(TRUE)
    /\ config.I2CP[<<"x">>] = IntV(1)


\* C18: parseYAML on a document with an empty or absent tunnels mapping
\* returns an error containing 'no tunnels found' and no config; on a
\* document with exactly one entry, whatever its fields, it returns that
\* entry with Name equal to the map key
C18_SingleEntryReturned ==
    (pc = "parsed" /\ ctx.Format = "yaml" /\ ~input.unmarshal.failed) =>
        /\ DOMAIN input.tunnels = {} =>
              /\ err = PlainError("yaml: no tunnels found in tunnels map")
              /\ config.isNil
        /\ \A name \in DOMAIN input.tunnels : DOMAIN input.tunnels = {name} =>
              /\ err = NilErr
              /\ ~config.isNil
              /\ config.Name = name
              /\ config.Type = IF "type" \in input.tunnels[name].has
                               THEN input.tunnels[name].v.Type ELSE <<>>


(***************************************************************************)
(* SAMTunnel.  The key store is the environment: env tells whether the     *)
(* working directory is known, whether the key file loads, and which step  *)
(* of creating a new key file fails, if any.                               *)
(***************************************************************************)
SAMEnvironments ==
    {"loaded", "created", "getwd fails", "generation fails", "create fails", "store fails"}

\* hasOption
hasOption(opts, prefix) == \E i \in 1..Len(opts) : HasPrefix(opts[i], prefix)

\* the options SAMTunnel collects from the four groups, for every order of the maps
SAMOptions(c) ==
    {[i \in DOMAIN oi |-> <<"i", "2", "c", "p", ".">> \o oi[i] \o <<"=">> \o Sprint(c.I2CP[oi[i]])]
     \o [i \in DOMAIN ot |-> ot[i] \o <<"=">> \o Sprint(c.Tunnel[ot[i]])]
     \o [i \in DOMAIN oin |-> <<"i", "n", "b", "o", "u", "n", "d", ".">> \o oin[i] \o <<"=">> \o Sprint(c.Inbound[oin[i]])]
     \o [i \in DOMAIN oout |-> <<"o", "u", "t", "b", "o", "u", "n", "d", ".">> \o oout[i] \o <<"=">> \o Sprint(c.Outbound[oout[i]])]
     : oi \in KeyOrders(c.I2CP), ot \in KeyOrders(c.Tunnel),
       oin \in KeyOrders(c.Inbound), oout \in KeyOrders(c.Outbound)}

\* TunnelConfig.SAMTunnel: every result the call can have in environment env
SAMTunnel(c, env) ==
    LET fail(msg) == {[keys |-> "nil", opts |-> <<>>, err |-> PlainError(msg)]}
        done(keys) ==
            {[keys |-> keys,
              opts |-> IF hasOption(o, <<"i", "2", "c", "p", ".", "l", "e", "a", "s", "e", "S", "e", "t", "E", "n", "c", "T", "y", "p", "e">>) THEN o
                       ELSE Append(o, <<"i", "2", "c", "p", ".", "l", "e", "a", "s", "e", "S", "e", "t", "E", "n", "c", "T", "y", "p", "e", "=", "4", ",", "0">>),
              err |-> NilErr] : o \in SAMOptions(c)}
    IN  IF ~c.PersistentKey THEN done("nil")
        ELSE IF c.Name = <<>> THEN fail("tunnel name is required for persistent keys")
        ELSE CASE env = "getwd fails" -> fail("failed to get working directory")
               [] env = "loaded" -> done("loaded")
               [] env = "generation fails" -> fail("failed to generate new I2P keys")
               [] env = "create fails" -> fail("failed to create key file")
               [] env = "store fails" -> fail("failed to store keys to file")
               [] OTHER -> done("new")

(***************************************************************************)
(* Specification SpecSAM: SAMTunnel on configs whose groups hold keys      *)
(* around i2cp.leaseSetEncType.                                            *)
(***************************************************************************)
\* the maps with the keys of some subset of K, each key with its value in vals
MapsOver(K, vals) == UNION {{[k \in D |-> vals[k]]} : D \in SUBSET K}

SAMConfigs ==
    {[NewConfig EXCEPT !.Name = n, !.PersistentKey = p, !.I2CP = i, !.Tunnel = t, !.Inbound = b] :
        n \in {<<>>, <<"t">>}, p \in BOOLEAN,
        i \in MapsOver({<<"l", "e", "a", "s", "e", "S", "e", "t", "E", "n", "c", "T", "y", "p", "e">>, <<"l", "e", "a", "s", "e", "S", "e", "t", "E", "n", "c", "T", "y", "p", "e", "L", "e", "g", "a", "c", "y">>, <<"x">>},
                       (<<"l", "e", "a", "s", "e", "S", "e", "t", "E", "n", "c", "T", "y", "p", "e">> :> StrV(<<"6">>)) @@ (<<"l", "e", "a", "s", "e", "S", "e", "t", "E", "n", "c", "T", "y", "p", "e", "L", "e", "g", "a", "c", "y">> :> IntV(0))
                       @@ (<<"x">> :> BoolV(TRUE))),
        t \in MapsOver({<<"i", "2", "c", "p", ".", "l", "e", "a", "s", "e", "S", "e", "t", "E", "n", "c", "T", "y", "p", "e">>, <<"g", "z", "i", "p">>},
                       (<<"i", "2", "c", "p", ".", "l", "e", "a", "s", "e", "S", "e", "t", "E", "n", "c", "T", "y", "p", "e">> :> StrV(<<"5">>)) @@ (<<"g", "z", "i", "p">> :> BoolV(TRUE))),
        b \in MapsOver({<<"l", "e", "n", "g", "t", "h">>}, (<<"l", "e", "n", "g", "t", "h">> :> IntV(3)))}

InitSAM ==
    /\ pc = "start"
    /\ config \in SAMConfigs
    /\ ctx \in [Env : SAMEnvironments]
    /\ value = [keys |-> "nil", opts |-> <<>>]
    /\ err = NilErr
    /\ input = Unused /\ text = Unused /\ path = Unused /\ first = Unused

\* config.SAMTunnel()
DoSAMTunnel ==
    /\ pc = "start"
    /\ \E r \in SAMTunnel(config, ctx.Env) :
          /\ value' = [keys |-> r.keys, opts |-> r.opts]
          /\ err' = r.err
    /\ pc' = "tunnel"
    /\ UNCHANGED <<input, config, text, path, first, ctx>>

NextSAM == DoSAMTunnel

SpecSAM == InitSAM /\ [][NextSAM]_vars

\* the key of an option, the text before its first '='
OptionKey(opt) == SplitN2(opt, "=")[1]

\* the value of an option, the text after its first '='
OptionValue(opt) == SplitN2(opt, "=")[2]

\* C19: the option list returned by SAMTunnel holds exactly one entry whose
\* key is i2cp.leaseSetEncType: the configured value when the I2CP group has
\* a leaseSetEncType key, otherwise the default 4,0
C19_OneLeaseSetEncType ==
    (pc = "tunnel" /\ err = NilErr) =>
        LET at == {i \in 1..Len(value.opts) : OptionKey(value.opts[i]) = <<"i", "2", "c", "p", ".", "l", "e", "a", "s", "e", "S", "e", "t", "E", "n", "c", "T", "y", "p", "e">>}
        IN  /\ Cardinality(at) = 1
            /\ \A i \in at :
                  OptionValue(value.opts[i]) =
                      IF <<"l", "e", "a", "s", "e", "S", "e", "t", "E", "n", "c", "T", "y", "p", "e">> \in DOMAIN config.I2CP
                      THEN Sprint(config.I2CP[<<"l", "e", "a", "s", "e", "S", "e", "t", "E", "n", "c", "T", "y", "p", "e">>])
                      ELSE <<"4", ",", "0">>


(***************************************************************************)
(* Converter.Convert, stage by stage: pc is the position inside the call,  *)
(* path the stages that have run, value.out whether bytes were returned.   *)
(***************************************************************************)
\* Converter.validate accepting every config
validate_AlwaysPasses(c) == ""

\* Converter.validate: the message of its error, "" for nil
validate(c) ==
    IF c.Name = <<>> THEN "name is required"
    ELSE IF c.Type = <<>> THEN "type is required"
    ELSE ""

\* the error Convert returns: nil, a ConversionError{Op, Err}, a
\* ValidationError{Config, Err}, the generator's own error, or a panic
ConvertErr(kind, op, c, inner) == [kind |-> kind, Op |-> op, Config |-> c, Err |-> inner]

NoConvertErr == ConvertErr("nil", "", NilConfig, NilErr)

\* most lines of an input of SpecConvert
MaxConvertLines == 2

ConvertFormats == Dialects \cup {"toml"}

ConvertInputs ==
    [properties |-> SeqsUpTo({<<"n", "a", "m", "e", "=", "X">>, <<"t", "y", "p", "e", "=", "c", "l", "i", "e", "n", "t">>, <<"o", "p", "t", "i", "o", "n", ".", "p", "e", "r", "s", "i", "s", "t", "e", "n", "t", "C", "l", "i", "e", "n", "t", "K", "e", "y", "=", "y", "e", "s">>,
                              <<"o", "p", "t", "i", "o", "n", ".", "i", "2", "c", "p", ".", "x", "=", "4", ",", "0">>}, MaxConvertLines),
     ini |-> SeqsUpTo({<<"[", "a", "]">>, <<"t", "y", "p", "e", " ", "=", " ", "s", "e", "r", "v", "e", "r">>, <<"[", "b">>, <<"g", "z", "i", "p", " ", "=", " ", "1">>}, MaxConvertLines),
     yaml |-> {[lines |-> <<>>, unmarshal |-> NoUnmarshalError, tunnels |-> f] :
                  f \in UNION {[D -> {NullNode,
                                      [null |-> FALSE, has |-> {}, v |-> YAMLNodeValues],
                                      [null |-> FALSE, has |-> {"type", "i2cp"}, v |-> YAMLNodeValues]}] :
                               D \in SUBSET {<<"A">>}}}
              \cup {[lines |-> <<<<"t", "u", "n", "n", "e", "l", "s", ":", " ", "[">>>>,
                     unmarshal |-> [failed |-> TRUE, line |-> 1, msg |-> "did not find expected node content"],
                     tunnels |-> <<>>]},
     toml |-> {<<<<"n", "a", "m", "e", " ", "=", " ", "'", "X", "'">>>>}]

InitConvert ==
    /\ pc = "start"
    /\ ctx \in [In : ConvertFormats, Out : ConvertFormats]
    /\ input \in ConvertInputs[ctx.In]
    /\ config = NilConfig
    /\ err = NoConvertErr
    /\ path = <<>>
    /\ text = <<>>
    /\ value = [out |-> FALSE]
    /\ first = Unused

\* Convert, first stage: parseInput, and the return of a ConversionError when it fails
ConvertParse ==
    /\ pc = "start"
    /\ path' = Append(path, "parse")
    /\ \E r \in parseInput(input, ctx.In) :
          IF r.err.kind = "panic"
          THEN /\ pc' = "panicked"
               /\ err' = ConvertErr("panic", "", NilConfig, r.err)
               /\ UNCHANGED config
          ELSE IF r.err # NilErr
          THEN /\ pc' = "returned"
               /\ err' = ConvertErr("ConversionError", "parse", NilConfig, r.err)
               /\ UNCHANGED config
          ELSE /\ pc' = "parsed"
               /\ config' = r.config
               /\ UNCHANGED err
    /\ UNCHANGED <<input, value, text, first, ctx>>

\* Convert, second stage: validate, and the return of a ValidationError when it fails
ConvertValidate ==
    /\ pc = "parsed"
    /\ path' = Append(path, "validate")
    /\ IF validate(config) # ""
       THEN /\ pc' = "returned"
            /\ err' = ConvertErr("ValidationError", "", config, PlainError(validate(config)))
       ELSE /\ pc' = "validated"
            /\ UNCHANGED err
    /\ UNCHANGED <<input, value, config, text, first, ctx>>

\* Convert, last stage: return c.generateOutput(config, outFormat)
ConvertGenerate ==
    /\ pc = "validated"
    /\ path' = Append(path, "generate")
    /\ \E r \in generateOutput(config, ctx.Out) :
          /\ text' = r.text
          /\ value' = [out |-> r.err = NilErr]
          /\ err' = IF r.err = NilErr THEN NoConvertErr ELSE ConvertErr("error", "", NilConfig, r.err)
    /\ pc' = "returned"
    /\ UNCHANGED <<input, config, first, ctx>>

NextConvert == ConvertParse \/ ConvertValidate \/ ConvertGenerate

SpecConvert == InitConvert /\ [][NextConvert]_vars

LastIndexDot(s) ==
    IF \E i \in 1..Len(s) : s[i] = "."
    THEN CHOOSE i \in 1..Len(s) : s[i] = "." /\ \A j \in (i + 1)..Len(s) : s[j] # "."
    ELSE 0

\* generateOutputFilename: the input path up to its last "." and the
\* extension of the output format
generateOutputFilename(inputFile, format) ==
    LET idx == LastIndexDot(inputFile)
        base == IF idx # 0 THEN SubSeq(inputFile, 1, idx - 1) ELSE inputFile
    IN  CASE format = "properties" -> base \o <<".", "p", "r", "o", "p", "e", "r", "t", "i", "e", "s">>
          [] format = "ini" -> base \o <<".", "c", "o", "n", "f">>
          [] format = "yaml" -> base \o <<".", "y", "a", "m", "l">>
          [] OTHER -> base \o <<".", "o", "u", "t">>

\* filepath.Ext: from the last "." of the last path element on, empty
\* without one
Ext(filename) ==
    LET idx == LastIndexDot(filename)
    IN  IF idx = 0 \/ \E j \in idx..Len(filename) : filename[j] = "/" THEN <<>>
        ELSE SubSeq(filename, idx, Len(filename))

\* Converter.DetectFormat: the dialect of the file's extension, and whether
\* there is one
DetectFormat(filename) ==
    LET ext == Ext(filename)
    IN  IF ext \in {<<".", "c", "o", "n", "f", "i", "g">>, <<".", "p", "r", "o", "p", "e", "r", "t", "i", "e", "s">>, <<".", "p", "r", "o", "p">>} THEN [format |-> "properties", ok |-> TRUE]
        ELSE IF ext \in {<<".", "c", "o", "n", "f">>, <<".", "i", "n", "i">>} THEN [format |-> "ini", ok |-> TRUE]
        ELSE IF ext \in {<<".", "y", "a", "m", "l">>, <<".", "y", "m", "l">>} THEN [format |-> "yaml", ok |-> TRUE]
        ELSE [format |-> "", ok |-> FALSE]


\* what yaml.Unmarshal makes of a text that is not YAML
NotYAML(lines) ==
    [lines |-> lines,
     unmarshal |-> [failed |-> TRUE, line |-> 1, msg |-> "cannot unmarshal"],
     tunnels |-> <<>>]

\* a file's content: its text as lines, and as the document yaml.Unmarshal
\* reads from it; a YAML text is kept as its document only
TextContent(lines) == [readable |-> TRUE, lines |-> lines, doc |-> NotYAML(lines)]

YAMLContent(doc) == [readable |-> TRUE, lines |-> <<>>, doc |-> doc]

\* a file os.ReadFile fails on (a directory, a file without read permission)
Unreadable == [readable |-> FALSE, lines |-> <<>>, doc |-> NotYAML(<<>>)]

\* the bytes of a file as the parser of a dialect takes them
BytesAs(content, format) == IF format = "yaml" THEN content.doc ELSE content.lines

\* the content os.WriteFile stores for a generated output
OutputContent(out, format) ==
    IF format = "yaml" THEN YAMLContent(out) ELSE TextContent(TextInput(out, format))

\* Converter.ParseInput: the parser of the dialect
ParseInput(data, format) == parseInput(data, format)

\* Converter.validateWithFormat: Validate under the converter's strict
\* setting and the input's dialect
validateWithFormat(c, strict, format) == Validate(c, strict, format)

\* the error of a processSingleFile call: nil, an error with its message
\* prefix, or a panic that leaves the call without returning
FileErr(kind, msg) == [kind |-> kind, msg |-> msg]

NoFileErr == FileErr("nil", "")

\* what one processSingleFile call does: the stages it ran, the error it
\* returned, the file system it leaves and the paths it wrote
FileOutcome(stages, e, fs, wrote) == [stages |-> stages, err |-> e, fs |-> fs, wrote |-> wrote]


\* the write step of processSingleFile without the dry-run test
writeOutput_IgnoresDryRun(fs, inputFile, outputFile, outputFormat, dryRun, stages, out) ==
    LET target == IF outputFile = <<>> THEN generateOutputFilename(inputFile, outputFormat)
                  ELSE outputFile
    IN  {FileOutcome(Append(stages, "write"), NoFileErr,
                     [n \in DOMAIN fs \cup {target} |->
                         IF n = target THEN OutputContent(out, outputFormat) ELSE fs[n]],
                     <<target>>)}


\* the outcomes of processSingleFile from its write step on, for each output
\* the generator can give: a dry run prints and writes nothing, otherwise
\* os.WriteFile stores the output under the output path or fails
writeOutput(fs, inputFile, outputFile, outputFormat, dryRun, stages, out) ==
    LET target == IF outputFile = <<>> THEN generateOutputFilename(inputFile, outputFormat)
                  ELSE outputFile
    IN  IF dryRun THEN {FileOutcome(stages, NoFileErr, fs, <<>>)}
        ELSE {FileOutcome(Append(stages, "write"), NoFileErr,
                          [n \in DOMAIN fs \cup {target} |->
                              IF n = target THEN OutputContent(out, outputFormat) ELSE fs[n]],
                          <<target>>),
              FileOutcome(Append(stages, "write"), FileErr("error", "failed to write output file"),
                          fs, <<>>)}

\* processSingleFile: every outcome the call can have
processSingleFile(fs, inputFile, outputFile, inputFormat, outputFormat, validateOnly, dryRun, strict) ==
    IF inputFile \notin DOMAIN fs \/ ~fs[inputFile].readable
    THEN {FileOutcome(<<"read">>, FileErr("error", "failed to read input file"), fs, <<>>)}
    ELSE IF inputFormat = "" /\ ~DetectFormat(inputFile).ok
    THEN {FileOutcome(<<"read", "detect">>, FileErr("error", "failed to detect input format"), fs, <<>>)}
    ELSE
      LET format == IF inputFormat = "" THEN DetectFormat(inputFile).format ELSE inputFormat
          s1 == IF inputFormat = "" THEN <<"read", "detect", "parse">> ELSE <<"read", "parse">>
          s2 == Append(s1, "validate")
          s3 == Append(s2, "generate")
      IN  UNION {
            IF r.err.kind = "panic"
            THEN {FileOutcome(s1, FileErr("panic", r.err.Message), fs, <<>>)}
            ELSE IF r.err # NilErr
            THEN {FileOutcome(s1, FileErr("error", "failed to parse input"), fs, <<>>)}
            ELSE IF validateWithFormat(r.config, strict, format) # NoErr
            THEN {FileOutcome(s2, FileErr("error", "validation error"), fs, <<>>)}
            ELSE IF validateOnly
            THEN {FileOutcome(s2, NoFileErr, fs, <<>>)}
            ELSE UNION {
                   IF g.err # NilErr
                   THEN {FileOutcome(s3, FileErr("error", "failed to generate output"), fs, <<>>)}
                   ELSE writeOutput(fs, inputFile, outputFile, outputFormat, dryRun, s3, g.text)
                   : g \in generateOutput(r.config, outputFormat)}
            : r \in ParseInput(BytesAs(fs[inputFile], format), format)}


\* BatchResult of one file: the zero value but for InputFile and
\* OutputFormat when the call failed
BatchResult(inputFile, outputFormat, e, inputFormat) ==
    IF e # NoFileErr
    THEN [InputFile |-> inputFile, OutputFile |-> <<>>, InputFormat |-> "",
          OutputFormat |-> outputFormat, Success |-> FALSE, Error |-> e]
    ELSE [InputFile |-> inputFile, OutputFile |-> generateOutputFilename(inputFile, outputFormat),
          InputFormat |-> IF inputFormat = "" THEN DetectFormat(inputFile).format ELSE inputFormat,
          OutputFormat |-> outputFormat, Success |-> TRUE, Error |-> NoFileErr]

\* the error of the command: nil, ProcessBatch's 'no files match pattern',
\* reportBatchResults' count of failed files, or the single file's error
CommandErr(kind, failed, total, e) == [kind |-> kind, failed |-> failed, total |-> total, file |-> e]

NoCommandErr == CommandErr("nil", 0, 0, NoFileErr)

\* reportBatchResults: an error when a file failed
reportBatchResults(results) ==
    LET failureCount == Cardinality({k \in 1..Len(results) : ~results[k].Success})
    IN  IF failureCount > 0 THEN CommandErr("failed", failureCount, Len(results), NoFileErr)
        ELSE NoCommandErr


(***************************************************************************)
(* Specification SpecBatch: ConvertCommand over a directory of four        *)
(* files, in batch mode over the files a glob pattern matches (in the      *)
(* order filepath.Glob returns them) or on a single file. value.fs is the  *)
(* file system, value.i the position of ProcessBatch's loop, path the      *)
(* processSingleFile calls made so far, first the results collected by     *)
(* ProcessBatch and err the error the command returns.                     *)
(***************************************************************************)
\* most files a glob pattern matches
MaxFiles == 3

\* the names in the directory, in filepath.Glob's (lexical) order
BatchFileNames == <<<<"a", ".", "c", "o", "n", "f">>, <<"a", ".", "y", "a", "m", "l">>, <<"b", ".", "p", "r", "o", "p", "e", "r", "t", "i", "e", "s">>, <<"c", ".", "t", "x", "t">>>>

\* the contents each file can have
BatchContents ==
    [n \in {BatchFileNames[k] : k \in 1..Len(BatchFileNames)} |->
        CASE n = <<"a", ".", "c", "o", "n", "f">> ->
               {TextContent(<<<<"[", "a", "]">>, <<"t", "y", "p", "e", " ", "=", " ", "c", "l", "i", "e", "n", "t">>, <<"p", "o", "r", "t", " ", "=", " ", "8", "0">>, <<>>>>),
                TextContent(<<<<"[", "b">>, <<>>>>)}
          [] n = <<"a", ".", "y", "a", "m", "l">> ->
               {YAMLContent([lines |-> <<>>, unmarshal |-> NoUnmarshalError,
                             tunnels |-> (<<"A">> :> [null |-> FALSE, has |-> {"type", "port"},
                                                     v |-> [YAMLNodeValues EXCEPT !.Port = 8080]])]),
                YAMLContent([lines |-> <<>>, unmarshal |-> NoUnmarshalError,
                             tunnels |-> (<<"A">> :> NullNode)])}
          [] n = <<"b", ".", "p", "r", "o", "p", "e", "r", "t", "i", "e", "s">> ->
               {TextContent(<<<<"n", "a", "m", "e", "=", "X">>, <<"t", "y", "p", "e", "=", "c", "l", "i", "e", "n", "t">>, <<"l", "i", "s", "t", "e", "n", "P", "o", "r", "t", "=", "8", "0", "8", "0">>, <<>>>>),
                Unreadable}
          [] OTHER -> {TextContent(<<<<"n", "a", "m", "e", "=", "X">>, <<>>>>)}]

\* the increasing sequences of at most n positions of 1..m
RECURSIVE Picks(_, _)
Picks(m, n) ==
    IF m = 0 \/ n = 0 THEN {<<>>}
    ELSE Picks(m - 1, n) \cup {Append(s, m) : s \in Picks(m - 1, n - 1)}

\* the lists of files a glob pattern can match
GlobResults ==
    {[k \in 1..Len(s) |-> BatchFileNames[s[k]]] : s \in Picks(Len(BatchFileNames), MaxFiles)}

InitBatch ==
    /\ ctx \in [Batch : BOOLEAN, InFormat : {"", "yaml"}, OutFormat : Dialects \cup {"toml"},
                OutputFile : {<<>>, <<"o", ".", "t", "x", "t">>}, ValidateOnly : BOOLEAN, DryRun : BOOLEAN,
                Strict : BOOLEAN]
    /\ ctx.Batch => ctx.OutputFile = <<>>
    /\ input \in GlobResults
    /\ ~ctx.Batch => Len(input) = 1
    /\ pc = IF ctx.Batch THEN "loop" ELSE "single"
    /\ value \in [fs : [DOMAIN BatchContents -> UNION {BatchContents[n] : n \in DOMAIN BatchContents}],
                  i : {1}]
    /\ \A n \in DOMAIN BatchContents : value.fs[n] \in BatchContents[n]
    /\ path = <<>>
    /\ first = <<>>
    /\ err = NoCommandErr
    /\ config = Unused
    /\ text = Unused

\* the record of one processSingleFile call
FileCall(inputFile, o) == [file |-> inputFile, stages |-> o.stages, err |-> o.err, wrote |-> o.wrote]

\* one iteration of ProcessBatch's loop: processSingleFile on the next file
\* and its BatchResult appended; a panic of the call leaves ProcessBatch
BatchFile ==
    /\ pc = "loop" /\ value.i <= Len(input)
    /\ \E o \in processSingleFile(value.fs, input[value.i], <<>>, ctx.InFormat, ctx.OutFormat,
                                  ctx.ValidateOnly, ctx.DryRun, ctx.Strict) :
          /\ path' = Append(path, FileCall(input[value.i], o))
          /\ value' = [fs |-> o.fs, i |-> value.i + 1]
          /\ IF o.err.kind = "panic"
             THEN /\ pc' = "panicked"
                  /\ UNCHANGED first
             ELSE /\ pc' = "loop"
                  /\ first' = Append(first, BatchResult(input[value.i], ctx.OutFormat, o.err, ctx.InFormat))
    /\ UNCHANGED <<input, config, err, text, ctx>>

\* the end of ProcessBatch and reportBatchResults on what it returned; no
\* file matched is ProcessBatch's own error
BatchReturn ==
    /\ pc = "loop" /\ value.i > Len(input)
    /\ pc' = "returned"
    /\ err' = IF Len(input) = 0 THEN CommandErr("no files match pattern", 0, 0, NoFileErr)
              ELSE reportBatchResults(first)
    /\ UNCHANGED <<input, value, config, text, path, first, ctx>>

\* ConvertCommand on a single file: processSingleFile with the output file given
SingleFile ==
    /\ pc = "single"
    /\ \E o \in processSingleFile(value.fs, input[1], ctx.OutputFile, ctx.InFormat, ctx.OutFormat,
                                  ctx.ValidateOnly, ctx.DryRun, ctx.Strict) :
          /\ path' = Append(path, FileCall(input[1], o))
          /\ value' = [fs |-> o.fs, i |-> 2]
          /\ pc' = IF o.err.kind = "panic" THEN "panicked" ELSE "returned"
          /\ err' = IF o.err.kind = "error" THEN CommandErr("file", 0, 0, o.err) ELSE NoCommandErr
    /\ UNCHANGED <<input, config, text, first, ctx>>

NextBatch == BatchFile \/ BatchReturn \/ SingleFile

SpecBatch == InitBatch /\ [][NextBatch]_vars


\* C21: ProcessBatch processes the matched files one at a time in glob
\* order and gives exactly one BatchResult per matched file, in that order:
\* a failure on a file is recorded in that file's result only (Success
\* false, Error set) and never keeps a later file from being processed
C21_OneResultPerFile ==
    ctx.Batch =>
        /\ Len(first) <= Len(input)
        /\ \A k \in 1..Len(first) :
              /\ first[k].InputFile = input[k]
              /\ path[k].file = input[k]
              /\ first[k].Success <=> path[k].err = NoFileErr
              /\ first[k].Error = path[k].err
        /\ pc # "loop" => (Len(first) = Len(input) /\ Len(path) = Len(input))


\* the stages of a processSingleFile call that ran to its end
AllStages(inputFormat) ==
    IF inputFormat = "" THEN <<"read", "detect", "parse", "validate", "generate", "write">>
    ELSE <<"read", "parse", "validate", "generate", "write">>

\* s is the beginning of t
IsPrefix(s, t) == Len(s) <= Len(t) /\ SubSeq(t, 1, Len(s)) = s

\* the stage is among the stages of the call
Ran(call, stage) == \E k \in 1..Len(call.stages) : call.stages[k] = stage

\* C22: processSingleFile writes an output file only after reading, format
\* detection, parsing and validation all succeeded and only when neither
\* validate-only nor dry-run is set; a validate-only call neither generates
\* nor writes, a dry-run call generates but writes no file, a call that
\* fails writes nothing, and the file system changes only by that write
C22_WriteOnlyAfterSuccess ==
    /\ [](\A k \in 1..Len(path) :
            /\ IsPrefix(path[k].stages, AllStages(ctx.InFormat))
            /\ path[k].wrote # <<>> =>
                  /\ path[k].stages = AllStages(ctx.InFormat)
                  /\ path[k].err = NoFileErr
                  /\ ~ctx.ValidateOnly /\ ~ctx.DryRun
            /\ ctx.ValidateOnly => (~Ran(path[k], "generate") /\ ~Ran(path[k], "write"))
            /\ (ctx.DryRun /\ ~ctx.ValidateOnly) =>
                  /\ ~Ran(path[k], "write")
                  /\ path[k].err = NoFileErr => Ran(path[k], "generate")
            /\ path[k].err # NoFileErr => path[k].wrote = <<>>
            /\ (path[k].err = NoFileErr /\ ~ctx.ValidateOnly /\ ~ctx.DryRun) => path[k].wrote # <<>>)
    /\ [][value'.fs # value.fs =>
            /\ Len(path') = Len(path) + 1
            /\ path'[Len(path')].wrote # <<>>
            /\ \A n \in DOMAIN value.fs : n # path'[Len(path')].wrote[1] =>
                  (n \in DOMAIN value'.fs /\ value'.fs[n] = value.fs[n])]_vars

\* a call on a.conf that ran every stage and wrote a.yaml, and the file
\* system now holds the written document
C22_Witness ==
    /\ Len(path) >= 1
    /\ path[1].file = <<"a", ".", "c", "o", "n", "f">> /\ path[1].wrote = <<<<"a", ".", "y", "a", "m", "l">>>>
    /\ path[1].stages = AllStages("")
    /\ value.fs[<<"a", ".", "y", "a", "m", "l">>].doc.tunnels = (<<"a">> :> MarshalNode(parseINI(<<<<"[", "a", "]">>, <<"t", "y", "p", "e", " ", "=", " ", "c", "l", "i", "e", "n", "t">>, <<"p", "o", "r", "t", " ", "=", " ", "8", "0">>, <<>>>>).config))


\* C30: the output path processSingleFile derives when none is given always
\* differs from the input path, for every file name and output format
C30_OutputPathDiffers ==
    \A k \in 1..Len(path) :
        (ctx.OutputFile = <<>> /\ path[k].wrote # <<>>) => path[k].wrote[1] # path[k].file


(***************************************************************************)
(* ParseError.Error and the specification SpecContext: newParseError for   *)
(* every line number on inputs of up to MaxContextLines lines, and the     *)
(* text Error gives for the error made.                                    *)
(***************************************************************************)
\* the %4d verb of fmt: the number right-aligned in four columns
Pad4(s) == IF Len(s) >= 4 THEN s ELSE [k \in 1..(4 - Len(s)) |-> " "] \o s

\* fmt.Sprintf("%s %4d | %s\n", prefix, lineNum, line) without the line end
ContextRow(prefix, lineNum, line) == prefix \o <<" ">> \o Pad4(Itoa(lineNum)) \o <<" ", "|", " ">> \o line

\* ParseError.Error: the location of the header (the column when it is
\* given), the rows written for the context lines, and the message
ParseError_Error(e) ==
    LET startLine == Max(e.Line - (Len(e.Context) \div 2), 1)
    IN  [header |-> [line |-> e.Line, column |-> IF e.Column > 0 THEN e.Column ELSE 0,
                     format |-> e.Format],
         rows |-> [i \in 1..Len(e.Context) |->
                      ContextRow(IF startLine + (i - 1) = e.Line THEN <<">", ">", ">">> ELSE <<" ", " ", " ">>,
                                 startLine + (i - 1), e.Context[i])],
         message |-> e.Message]

\* most lines of an input of SpecContext
MaxContextLines == 6

\* the texts a line can have
ContextLineTexts == {<<"x">>, <<"y">>}

InitContext ==
    /\ pc = "start"
    /\ input \in SeqsUpTo(ContextLineTexts, MaxContextLines) \ {<<>>}
    /\ ctx \in [Line : 0..(MaxContextLines + 1), Column : {0, 3}]
    /\ err = NilErr
    /\ text = Unused
    /\ value = Unused
    /\ config = Unused
    /\ path = Unused
    /\ first = Unused

\* newParseError on the input for the line and column, and Error on its result
DoNewParseError ==
    /\ pc = "start"
    /\ pc' = "error"
    /\ err' = newParseError(input, ctx.Line, ctx.Column, "ini", "invalid line")
    /\ text' = ParseError_Error(newParseError(input, ctx.Line, ctx.Column, "ini", "invalid line"))
    /\ UNCHANGED <<input, value, config, path, first, ctx>>

NextContext == DoNewParseError

SpecContext == InitContext /\ [][NextContext]_vars

\* C23: for a 1-indexed line L of an input of n lines, the context is the
\* lines max(1, L-2) to min(n, L+2) in order and the content is line L; for
\* L outside 1..n there is no context and the content is empty
C23_ContextWindow ==
    pc = "error" =>
        IF ctx.Line \in 1..Len(input)
        THEN LET lo == Max(1, ctx.Line - 2)
                 hi == Min(Len(input), ctx.Line + 2)
             IN  /\ err.Context = [k \in 1..(hi - lo + 1) |-> input[lo + (k - 1)]]
                 /\ err.Content = input[ctx.Line]
        ELSE err.Context = <<>> /\ err.Content = <<>>

\* the error for line 5 of six lines carries lines 3 to 6: the window is
\* cut at the end of the input
C23_Witness ==
    /\ pc = "error"
    /\ ctx.Line = 5 /\ input = <<<<"x">>, <<"y">>, <<"x">>, <<"x">>, <<"y">>, <<"y">>>>
    /\ err.Context = <<<<"x">>, <<"x">>, <<"y">>, <<"y">>>> /\ err.Content = <<"y">>

\* C24: Error prints each context line with its true 1-indexed number and
\* marks with '>>>' exactly the line whose number is L, whose text is the
\* content, wherever L lies in the input
C24_TrueLineNumbers ==
    (pc = "error" /\ ctx.Line \in 1..Len(input)) =>
        LET lo == Max(1, ctx.Line - 2)
            hi == Min(Len(input), ctx.Line + 2)
        IN  text.rows = [k \in 1..(hi - lo + 1) |->
                            ContextRow(IF lo + (k - 1) = ctx.Line THEN <<">", ">", ">">> ELSE <<" ", " ", " ">>,
                                       lo + (k - 1), input[lo + (k - 1)])]


(***************************************************************************)
(* Claims on list-valued options through the generators (SpecRound)        *)
(***************************************************************************)
\* the values of a config's options that are lists, as their elements
ListOptions(c) ==
    {c[g][k].l : <<g, k>> \in {p \in Groups \X UNION {DOMAIN c[g] : g \in Groups} :
                                  p[2] \in DOMAIN c[p[1]] /\ c[p[1]][p[2]].t \in {"[]string", "[]interface{}"}}}

\* C25: for every list-valued option of a config parsed from properties, INI
\* or YAML, generateJavaProperties writes the elements joined by ',' and
\* generateINI writes them joined by ', ', and parsing the generated text
\* gives an option holding the same list
C25_ListsSurviveGeneration ==
    (Len(path) = 2 /\ path[2] \in {"properties", "ini"} /\ pc \in {"generated", "parsed"}) =>
        \A l \in ListOptions(first) :
            /\ \E n \in 1..Len(text) :
                  HasSuffix(text[n], IF path[2] = "properties" THEN <<"=">> \o Join(l, <<",">>)
                                     ELSE <<" ", "=", " ">> \o Join(l, <<",", " ">>))
            /\ pc = "parsed" => l \in ListOptions(config)


(***************************************************************************)
(* Specification SpecINITarget: an INI input of one section with a type    *)
(* and a target is parsed and the config is written by generateINI.        *)
(***************************************************************************)
INITargetLines == {<<"a", "d", "d", "r", "e", "s", "s", " ", "=", " ", "d">>, <<"d", "e", "s", "t", "i", "n", "a", "t", "i", "o", "n", " ", "=", " ", "d">>}

INITargetInputs ==
    {<<<<"[", "a", "]">>>> \o (IF type = <<>> THEN <<>> ELSE <<<<"t", "y", "p", "e", " ", "=", " ">> \o type>>) \o target \o << <<>> >> :
        type \in ValidateTypes, target \in {<<>>} \cup {<<l>> : l \in INITargetLines}}

InitINITarget ==
    /\ pc = "start"
    /\ input \in INITargetInputs
    /\ config = NilConfig
    /\ err = NilErr
    /\ text = <<>>
    /\ value = Unused
    /\ path = Unused
    /\ first = Unused
    /\ ctx = Unused

\* parseINI on the input
ParseTarget ==
    /\ pc = "start"
    /\ config' = parseINI(input).config
    /\ err' = parseINI(input).err
    /\ pc' = IF parseINI(input).err = NilErr THEN "parsed" ELSE "failed"
    /\ UNCHANGED <<input, value, text, path, first, ctx>>

\* generateINI on the parsed config
GenerateTarget ==
    /\ pc = "parsed"
    /\ text' \in generateINI(config)
    /\ pc' = "generated"
    /\ UNCHANGED <<input, value, config, err, path, first, ctx>>

NextINITarget == ParseTarget \/ GenerateTarget

SpecINITarget == InitINITarget /\ [][NextINITarget]_vars

\* the tunnel types the claim calls server-class
ServerClassTypes == {<<"h", "t", "t", "p", "s", "e", "r", "v", "e", "r">>, <<"s", "e", "r", "v", "e", "r">>, <<"i", "r", "c", "s", "e", "r", "v", "e", "r">>, <<"s", "t", "r", "e", "a", "m", "r", "s", "e", "r", "v", "e", "r">>, <<"h", "t", "t", "p", "b", "i", "d", "i", "r", "s", "e", "r", "v", "e", "r">>}

\* C26: generateINI writes a non-empty Target as address exactly when Type
\* is server-class (httpserver, server, ircserver, streamrserver,
\* httpbidirserver) and as destination otherwise, in exactly one line, and
\* writes neither key when Target is empty
C26_TargetKeyByType ==
    pc = "generated" =>
        LET addresses == {n \in 1..Len(text) : HasPrefix(text[n], <<"a", "d", "d", "r", "e", "s", "s", " ", "=", " ">>)}
            destinations == {n \in 1..Len(text) : HasPrefix(text[n], <<"d", "e", "s", "t", "i", "n", "a", "t", "i", "o", "n", " ", "=", " ">>)}
        IN  IF config.Target = <<>> THEN addresses = {} /\ destinations = {}
            ELSE IF config.Type \in ServerClassTypes
            THEN /\ destinations = {} /\ Cardinality(addresses) = 1
                 /\ \A n \in addresses : text[n] = <<"a", "d", "d", "r", "e", "s", "s", " ", "=", " ">> \o config.Target
            ELSE /\ addresses = {} /\ Cardinality(destinations) = 1
                 /\ \A n \in destinations : text[n] = <<"d", "e", "s", "t", "i", "n", "a", "t", "i", "o", "n", " ", "=", " ">> \o config.Target


(***************************************************************************)
(* Specification SpecSAMParsed: a properties or INI input is parsed and    *)
(* SAMTunnel is called on the config.                                      *)
(***************************************************************************)
\* most lines of an input of SpecSAMParsed
MaxSAMLines == 2

SAMPropertiesLines ==
    {<<"n", "a", "m", "e", "=", "X">>, <<"o", "p", "t", "i", "o", "n", ".", "i", "2", "c", "p", ".", "l", "e", "a", "s", "e", "S", "e", "t", "E", "n", "c", "T", "y", "p", "e", "=", "4", ",", "0">>, <<"o", "p", "t", "i", "o", "n", ".", "i", "2", "c", "p", ".", "l", "e", "a", "s", "e", "S", "e", "t", "E", "n", "c", "T", "y", "p", "e", "=", "4">>,
     <<"o", "p", "t", "i", "o", "n", ".", "i", "n", "b", "o", "u", "n", "d", ".", "x", "=", "a", ",", "b">>}

SAMINILines ==
    {<<"[", "a", "]">>, <<"i", "2", "c", "p", ".", "l", "e", "a", "s", "e", "S", "e", "t", "E", "n", "c", "T", "y", "p", "e", " ", "=", " ", "4", ",", "0">>, <<"i", "2", "c", "p", ".", "l", "e", "a", "s", "e", "S", "e", "t", "E", "n", "c", "T", "y", "p", "e", " ", "=", " ", "4">>, <<"i", "n", "b", "o", "u", "n", "d", ".", "x", " ", "=", " ", "a", ",", "b">>}

InitSAMParsed ==
    /\ pc = "start"
    /\ ctx \in [Format : {"properties", "ini"}, Env : SAMEnvironments]
    /\ input \in {l \o << <<>> >> :
                     l \in SeqsUpTo(IF ctx.Format = "ini" THEN SAMINILines ELSE SAMPropertiesLines,
                                    MaxSAMLines)}
    /\ config = NilConfig
    /\ value = [keys |-> "nil", opts |-> <<>>]
    /\ err = NilErr
    /\ text = Unused /\ path = Unused /\ first = Unused

\* parseInput on the input
SAMParse ==
    /\ pc = "start"
    /\ \E r \in parseInput(input, ctx.Format) :
          /\ config' = r.config /\ err' = r.err
          /\ pc' = IF r.err = NilErr THEN "parsed" ELSE "failed"
    /\ UNCHANGED <<input, value, text, path, first, ctx>>

\* config.SAMTunnel() on the parsed config
SAMParsedTunnel ==
    /\ pc = "parsed"
    /\ \E r \in SAMTunnel(config, ctx.Env) :
          /\ value' = [keys |-> r.keys, opts |-> r.opts]
          /\ err' = r.err
    /\ pc' = "tunnel"
    /\ UNCHANGED <<input, config, text, path, first, ctx>>

NextSAMParsed == SAMParse \/ SAMParsedTunnel

SpecSAMParsed == InitSAMParsed /\ [][NextSAMParsed]_vars

\* the prefix SAMTunnel gives the keys of each group
SAMPrefix ==
    [g \in Groups |-> CASE g = "I2CP" -> <<"i", "2", "c", "p", ".">> [] g = "Tunnel" -> <<>>
                        [] g = "Inbound" -> <<"i", "n", "b", "o", "u", "n", "d", ".">> [] g = "Outbound" -> <<"o", "u", "t", "b", "o", "u", "n", "d", ".">>]

\* C27: for a config parsed from properties or INI in which the I2CP option
\* leaseSetEncType is written 4,0, SAMTunnel emits i2cp.leaseSetEncType=4,0,
\* and it serializes every list-valued option as its elements joined by commas
C27_ListsJoinedByCommas ==
    (pc = "tunnel" /\ err = NilErr) =>
        /\ (<<"l", "e", "a", "s", "e", "S", "e", "t", "E", "n", "c", "T", "y", "p", "e">> \in DOMAIN config.I2CP /\ config.I2CP[<<"l", "e", "a", "s", "e", "S", "e", "t", "E", "n", "c", "T", "y", "p", "e">>] = ListV(<<<<"4">>, <<"0">>>>))
              => \E n \in 1..Len(value.opts) : value.opts[n] = <<"i", "2", "c", "p", ".", "l", "e", "a", "s", "e", "S", "e", "t", "E", "n", "c", "T", "y", "p", "e", "=", "4", ",", "0">>
        /\ \A g \in Groups : \A k \in DOMAIN config[g] :
              config[g][k].t = "[]string" =>
                  \E n \in 1..Len(value.opts) :
                      value.opts[n] = SAMPrefix[g] \o k \o <<"=">> \o Join(config[g][k].l, <<",">>)


(***************************************************************************)
(* Specification SpecINISections: parseINI on inputs of up to              *)
(* MaxSectionLines lines with one or more sections.                        *)
(***************************************************************************)
\* most lines of an input of SpecINISections
MaxSectionLines == 4

INISectionLines == {<<"[", "a", "]">>, <<"[", "b", "]">>, <<"t", "y", "p", "e", " ", "=", " ", "c", "l", "i", "e", "n", "t">>, <<"t", "y", "p", "e", " ", "=", " ", "s", "e", "r", "v", "e", "r">>, <<"p", "o", "r", "t", " ", "=", " ", "8", "0">>}

InitINISections ==
    /\ pc = "start"
    /\ ctx = [Format |-> "ini"]
    /\ input \in SeqsUpTo(INISectionLines, MaxSectionLines)
    /\ config = NilConfig
    /\ err = NilErr
    /\ value = Unused /\ text = Unused /\ path = Unused /\ first = Unused

NextINISections == ParseINI

SpecINISections == InitINISections /\ [][NextINISections]_vars

\* the positions of the section headers of the input
SectionHeaders(lines) == {n \in 1..Len(lines) : HasPrefix(TrimSpace(lines[n]), <<"[">>)}

\* the input up to the line before its second section header, the whole
\* input when it has at most one
FirstSection(lines) ==
    IF Cardinality(SectionHeaders(lines)) < 2 THEN lines
    ELSE LET h1 == CHOOSE n \in SectionHeaders(lines) : \A m \in SectionHeaders(lines) : n <= m
             h2 == CHOOSE n \in SectionHeaders(lines) \ {h1} :
                      \A m \in SectionHeaders(lines) \ {h1} : n <= m
         IN  SubSeq(lines, 1, h2 - 1)

\* C28: for an INI input with several sections the config parseINI returns
\* describes the first section only; keys under later sections leave it as
\* the first section alone gives it
C28_FirstSectionOnly ==
    (pc = "parsed" /\ err = NilErr) => config = parseINI(FirstSection(input)).config


(***************************************************************************)
(* Claims on parseYAML's choice among several entries (SpecParse)          *)
(***************************************************************************)
\* C29: for a document whose tunnels mapping has more than one entry,
\* parseYAML returns the first tunnel of the document, so that parsing the
\* same text again gives the same config: the result in hand is the only
\* result the call can have
C29_SameEntryEveryTime ==
    (pc = "parsed" /\ ctx.Format = "yaml") =>
        \A r \in parseYAML(input) : r.config = config /\ r.err = err


====
